---- MODULE Spec2Model ----
(***************************************************************************)
(* A model of the uavBuilder mission-performance core: the battery         *)
(* (lipo.py), the EDF and the Aircraft equilibrium builder (edf_config.py),*)
(* the cruise-speed estimator (edf_speed.py), the mission simulator        *)
(* (edf_mission.py) and the log-scaled parameter score (uav_parameters.py).*)
(*                                                                         *)
(* The program computes in floating point.  The model computes in fixed    *)
(* point on integers; every quantity carries its unit in its name:         *)
(*   _g  gram            _mn  millinewton      _mw  milliwatt              *)
(*   _mmps  mm/s         _ms  millisecond      _mm  millimetre             *)
(*   _cm  centimetre     _mkts  1/1000 knot    _mfpm  1/1000 ft/min        *)
(*   _umps  1/1000 mm/s  _umps2  1/1000 mm/s^2 _e5m2  1/100000 m^2         *)
(*   _mpct  1/1000 of a percent                _ppm  1/1000000             *)
(*   _milli  1/1000      _h  one half          _w  watt, _wh  watt-hour    *)
(* Divisions round toward minus infinity.                                  *)
(*                                                                         *)
(* Each behaviour runs one entry point of the program, named by scenario.  *)
(***************************************************************************)
EXTENDS Integers, Sequences, FiniteSets, TLC

VARIABLES
    catalogs,   \* the parts catalogues loaded at import
    search,     \* the local variables of a staged search
    scenario,   \* which entry point of the program this behaviour runs
    args,       \* the arguments the entry point was called with
    battery,    \* the lipo.Battery object of the call
    aircraft,   \* the edf_config.Aircraft under construction, built or flown
    design,     \* the local variables of Aircraft.design_from_mission
    path,       \* the edf_mission.FlightPath being built
    executed,   \* mission phases that have recorded their sample, in order;
                \* for calculate_profile, what the calls before returned
    result,     \* the value the entry point returns
    outcome,    \* "pending", "returned" or "raised"
    pc          \* position in the running function

vars == <<catalogs, search, scenario, args, battery, aircraft, design, path, executed,
          result, outcome, pc>>

\* A variable that holds no object (yet): the object without attributes.
None == <<>>

----------------------------------------------------------------------------
(* Fixed-point arithmetic.                                                 *)

\* The element of a one-element set.  In { e(x) : x \in {v} } the value v
\* is computed once, however often e uses x.
Only(S) == CHOOSE x \in S : TRUE

Min(a, b) == Only({ IF t[1] <= t[2] THEN t[1] ELSE t[2] : t \in {<<a, b>>} })

Max(a, b) == Only({ IF t[1] >= t[2] THEN t[1] ELSE t[2] : t \in {<<a, b>>} })

Abs(a) == Only({ IF v >= 0 THEN v ELSE -v : v \in {a} })

\* The digit base of the long multiplication by a divisor c <= 2^29: a
\* power of two with base * c <= 2^30, which keeps every sum below 2^31.
DigitBase(c) ==
    IF c <= 262144 THEN 4096
    ELSE IF c <= 4194304 THEN 256
    ELSE IF c <= 67108864 THEN 16
    ELSE 2

\* <<q, r>> with a*b = q*c + r and 0 <= r < c, for 0 <= a < c and b >= 0,
\* without forming the product a*b: long multiplication over the digits
\* of b in the given base.
RECURSIVE MulDivQR(_, _, _, _)
MulDivQR(a, b, c, base) ==
    IF b = 0 THEN <<0, 0>>
    ELSE Only({ << base * h[1] + ((base * h[2] + (b % base) * a) \div c),
                   (base * h[2] + (b % base) * a) % c >> :
                h \in {MulDivQR(a, b \div base, c, base)} })

\* <<q, r>> with a*b = q*c + r and 0 <= r < c, for c > 0 and a, b >= 0.
\* The product is formed directly when it fits in 31 bits; otherwise
\* a = qa*c + ra is split and a*b = (qa*b + q)*c + r with
\* <<q, r>> = MulDivQR(ra, b, c).
MulDivNat(a, b, c) ==
    IF a = 0 \/ b = 0 THEN <<0, 0>>
    ELSE IF b <= 2147483647 \div a THEN <<(a * b) \div c, (a * b) % c>>
    ELSE Only({ <<(a \div c) * b + qr[1], qr[2]>> :
                qr \in {MulDivQR(a % c, b, c, DigitBase(c))} })

\* floor(a*b/c) for c > 0 and any signs of a and b.
MulDivSigned(a, b, c) ==
    Only({ IF (a >= 0) = (b >= 0) THEN qr[1]
           ELSE IF qr[2] = 0 THEN -qr[1] ELSE -qr[1] - 1 :
           qr \in {MulDivNat(Abs(a), Abs(b), c)} })

MulDiv(a, b, c) ==
    Only({ IF t[3] > 0 THEN MulDivSigned(t[1], t[2], t[3])
           ELSE MulDivSigned(-t[1], t[2], -t[3]) : t \in {<<a, b, c>>} })

\* The table (xs, ys) interpolated linearly at x, xs[1] < x < xs[Len(xs)].
InterpInside(xs, ys, x) ==
    Only({ ys[i] + MulDiv(ys[i + 1] - ys[i], x - xs[i], xs[i + 1] - xs[i]) :
           i \in { j \in 1..(Len(xs) - 1) : xs[j] <= x /\ x < xs[j + 1] } })

\* Piecewise-linear interpolation of the table (xs, ys) at x; xs ascending.
\* Outside the table the nearest end value is returned.
Interp(xs, ys, x) ==
    Only({ IF v <= xs[1] THEN ys[1]
           ELSE IF v >= xs[Len(xs)] THEN ys[Len(ys)]
           ELSE InterpInside(xs, ys, v) : v \in {x} })

\* floor(sqrt(v)) for 256 * hi <= sqrt(v) < 256 * (hi + 1).
SqrtFine(v, hi) ==
    CHOOSE r \in (256 * hi)..(256 * hi + 255) :
        (r = 0 \/ r <= v \div r) /\ r + 1 > v \div (r + 1)

\* floor(sqrt(n)) for 0 <= n < 2^31: the multiple of 256 below the root,
\* then the root.
ISqrt(n) ==
    Only({ SqrtFine(v, CHOOSE k \in 0..181 :
                           /\ k = 0 \/ 256 * k <= v \div (256 * k)
                           /\ 256 * (k + 1) > v \div (256 * (k + 1))) :
           v \in {n} })

----------------------------------------------------------------------------
(* lipo.py: Battery.                                                       *)

\* Battery.__init__ (lipo.py 8-17).  weight_g is the per-pack weight in
\* grams, energy_wh the per-pack energy in Wh, voltage_mv in millivolts.
Battery(weight_g, c_rating, energy_wh, voltage_mv, num_batteries) ==
    LET e == energy_wh * num_batteries
    IN  [ num_batteries  |-> num_batteries,
          weight_g       |-> weight_g * num_batteries,
          c_rating       |-> c_rating,
          energy_wh      |-> e,
          voltage_mv     |-> voltage_mv,
          capacity_mah   |-> IF voltage_mv > 0
                             THEN MulDiv(e, 1000000, voltage_mv) ELSE 0,
          max_power_w    |-> e * c_rating,
          total_energy_j |-> e * 3600 ]

\* The test of line 27 with <= for <: a pack of exactly 1.2 times the
\* required power is refused.
CannotSupplyMutStrict(b, required_w) == 10 * b.max_power_w <= 12 * required_w

\* The test of line 27 without its 1.2 margin.
CannotSupplyMutNoMargin(b, required_w) == b.max_power_w < required_w

\* The test of Battery.check_power_output (lipo.py 27):
\* max_power_w < required_power_w * 1.2, on tenths.
CannotSupply(b, required_w) == 10 * b.max_power_w < 12 * required_w


\* log10(x) in thousandths at x = LogKnots/1000; the program calls
\* math.log10 (lipo.py 23) and np.log10 (edf_speed.py 18) on max(1, .).
LogKnots ==
    << 1000, 1250, 1600, 2000, 2500, 3200, 4000, 5000,
       6400, 8000, 10000, 12500, 16000, 20000, 25000, 32000,
       40000, 50000, 64000, 80000, 100000 >>

LogMilli ==
    << 0, 97, 204, 301, 398, 505, 602, 699,
       806, 903, 1000, 1097, 1204, 1301, 1398, 1505,
       1602, 1699, 1806, 1903, 2000 >>

\* log10(max(1, x)) in thousandths, x given in thousandths.
Log10Max1(x_milli) == Interp(LogKnots, LogMilli, Max(1000, x_milli))

\* Battery._calculate_energy_density (lipo.py 20-23), in mWh per kg:
\* 210 - 25 * log10(max(1, c_rating / 10)) Wh/kg.
CalculateEnergyDensity(c_rating) == 210000 - 25 * Log10Max1(c_rating * 100)

\* Battery.from_c_and_weight (lipo.py 30-37); None stands for the ValueError
\* of line 33.  cell_count * 3.7 V is cell_count * 3700 mV.
FromCAndWeight(c_rating, max_weight_g, cell_count, num_batteries) ==
    IF c_rating <= 0 \/ max_weight_g <= 0 THEN None
    ELSE LET per_pack_g == max_weight_g \div num_batteries
             energy_wh  == MulDiv(per_pack_g, CalculateEnergyDensity(c_rating),
                                  1000000)
         IN  Battery(per_pack_g, c_rating, energy_wh, cell_count * 3700,
                     num_batteries)

----------------------------------------------------------------------------
(* edf_config.py: EDF.                                                     *)

\* EDF.__init__ (edf_config.py 18-20); design speed 25 + power_w/150 m/s.
EDF(power_w, static_thrust_mn, weight_g, diameter_mm) ==
    [ power_w           |-> power_w,
      static_thrust_mn  |-> static_thrust_mn,
      weight_g          |-> weight_g,
      diameter_mm       |-> diameter_mm,
      design_speed_mmps |-> 25000 + MulDiv(power_w, 20, 3) ]

\* 1000 * p^0.88 at the powers of two p = 2^0 .. 2^20 (edf_config.py 26).
OctaveKnots ==
    << 1, 2, 4, 8, 16, 32, 64, 128,
       256, 512, 1024, 2048, 4096, 8192, 16384, 32768,
       65536, 131072, 262144, 524288, 1048576 >>

Pow88Milli ==
    << 1000, 1840, 3387, 6233, 11472, 21112, 38854, 71506,
       131599, 242191, 445722, 820296, 1509652, 2778326, 5113162, 9410137,
       17318184, 31871957, 58656363, 107949722, 198668002 >>

\* 10 * p^0.75 = sqrt(p * 100 * sqrt(p)); above 70 kW the inner root is
\* taken to the unit, which keeps every product below 2^31 up to 1.6 MW.
Pow75Tenths(p) ==
    IF p <= 70000 THEN ISqrt(p * ISqrt(p * 10000))
    ELSE 10 * ISqrt(p * ISqrt(p))

\* EDF.from_power (edf_config.py 22-29): weight 0.05 + 0.020 p^0.75 kg,
\* static thrust 0.7 p^0.88 N, diameter 0.03 p^0.44 m = 30 sqrt(p^0.88) mm.
FromPower(power_w) ==
    LET p88 == Interp(OctaveKnots, Pow88Milli, power_w)
    IN  EDF(power_w,
            MulDiv(p88, 7, 10),
            50 + 2 * Pow75Tenths(power_w),
            3 * ISqrt(p88 \div 10))

\* 0.70 * exp(-d^2 / 0.8) in ppm at d = EffKnots/10000 (edf_config.py 35);
\* past d = 4 the value is below 1 ppm.
EffKnots ==
    << 0, 500, 1000, 1500, 2000, 2500, 3000, 3500,
       4000, 4500, 5000, 5500, 6000, 6500, 7000, 7500,
       8000, 8500, 9000, 9500, 10000, 10500, 11000, 11500,
       12000, 12500, 13000, 15000, 20000, 30000, 40000 >>

EffPpm ==
    << 700000, 697816, 691304, 680587, 665861, 647394, 625518, 600616,
       573112, 543460, 512131, 479601, 446340, 412797, 379396, 346525,
       314530, 283711, 254317, 226548, 200553, 176435, 154251, 134015,
       115709, 99281, 84655, 42038, 4717, 9, 0 >>

\* EDF.get_propulsive_efficiency (edf_config.py 31-35), in ppm:
\* max(0.1, 0.70 * exp(-((tas/design_speed - 1)^2) / 0.8)).
GetPropulsiveEfficiency(edf, tas_mmps) ==
    LET speed_ratio_e4 == MulDiv(tas_mmps, 10000, edf.design_speed_mmps)
    IN  Max(100000, Interp(EffKnots, EffPpm, Abs(speed_ratio_e4 - 10000)))

----------------------------------------------------------------------------
(* edf_speed.py: the cruise-speed estimator.                               *)

\* 1000 * 0.19815 * p^0.6246 (knots) at p = PowerKnots W (edf_speed.py 13).
PowerKnots ==
    << 200, 250, 320, 400, 500, 640, 800, 1000,
       1250, 1600, 2000, 2500, 3200, 4000, 5000, 6400,
       8000, 10000, 12500, 16000, 20000 >>

BaseSpeedMkts ==
    << 5423, 6234, 7273, 8361, 9611, 11213, 12890, 14818,
       17034, 19874, 22846, 26263, 30642, 35224, 40492, 47243,
       54308, 62430, 71767, 83731, 96254 >>

\* estimate_modified_cruise_speed (edf_speed.py 5-28), in milliknots.
EstimateModifiedCruiseSpeed(power_w, endurance_percent) ==
    LET clipped_power_w     == Max(200, Min(20000, power_w))
        base_speed_mkts     == Interp(PowerKnots, BaseSpeedMkts, clipped_power_w)
        size_penalty_ppm    == 1000000 - 100 * Log10Max1(clipped_power_w)
        speed_factor_ppm    == 1000000 - endurance_percent * 6500
    IN  MulDiv(MulDiv(base_speed_mkts, speed_factor_ppm, 1000000),
               size_penalty_ppm, 1000000)

----------------------------------------------------------------------------
(* uav_parameters.py: the mission target.                                  *)

\* LogScaledParameter.__init__ (uav_parameters.py 19-36): the range and the
\* default percent 50.  The arguments pass the validation of lines 20-25.
LogScaledParameter(min_val, max_val) ==
    [ min_val |-> min_val, max_val |-> max_val, percent |-> 50 ]

\* FixedWingParameters.__init__ (uav_parameters.py 131-162).  Units: g,
\* m/h (km/h * 1000), s (5 minutes .. 10 hours), mm, g.
FixedWingParameters ==
    [ takeoff_weight   |-> LogScaledParameter(5000, 250000),
      cruise_speed     |-> LogScaledParameter(30000, 600000),
      endurance        |-> LogScaledParameter(300, 36000),
      wingspan         |-> LogScaledParameter(300, 3000),
      payload_capacity |-> LogScaledParameter(200, 30000) ]

\* The percent setter on params.endurance (uav_parameters.py 68-73), for a
\* percent inside 0..100.
WithEndurancePercent(params, new_percent) ==
    [params EXCEPT !.endurance.percent = new_percent]

----------------------------------------------------------------------------
(* edf_config.py: Aircraft.                                                *)

\* Aircraft.__init__ line 39: the three arguments are stored; the object
\* has no other attribute yet.
AircraftShell(edf, bat, params) ==
    [ edf |-> edf, battery |-> bat, params |-> params ]

\* Whether the attributes of lines 42-76 exist on the object.
Derived(a) == "mtow_g" \in DOMAIN a

\* d_min * 0.5 * (v_ratio^2 + (1/v_ratio)^2) (edf_config.py 99 and
\* edf_mission.py 74), v_ratio in ppm, forces in mN.
DragAtVy(d_min_mn, v_ratio_ppm) ==
    LET v2_ppm == MulDiv(v_ratio_ppm, v_ratio_ppm, 1000000)
    IN  MulDiv(d_min_mn, v2_ppm + MulDiv(1000000, 1000000, v2_ppm), 2000000)

\* Aircraft.calculate_rate_of_climb (edf_config.py 93-119), in 1/1000 fpm.
CalculateRateOfClimb(edf, weight_mn, ld_ratio_milli, vy_mmps, glide_mmps) ==
    LET power_available_climb_mw ==
            MulDiv(edf.power_w, GetPropulsiveEfficiency(edf, vy_mmps), 1000)
        d_min_mn    == MulDiv(weight_mn, 1000, ld_ratio_milli)
        v_ratio_ppm == IF glide_mmps > 0
                       THEN MulDiv(vy_mmps, 1000000, glide_mmps) ELSE 1000000
        power_required_climb_mw ==
            MulDiv(DragAtVy(d_min_mn, v_ratio_ppm), vy_mmps, 1000)
        excess_power_mw == power_available_climb_mw - power_required_climb_mw
    IN  Max(0, MulDiv(MulDiv(excess_power_mw, 1000000, weight_mn),
                      19685, 100000))

\* Aircraft.__init__ lines 42-76: every derived quantity, from the stored
\* edf, battery and params.
AircraftDerive(a) ==
    LET power_system_weight_g == a.edf.weight_g + a.battery.weight_g
        airframe_weight_g == 400 + MulDiv(power_system_weight_g, 8, 10)
        empty_weight_g    == a.edf.weight_g + a.battery.weight_g
                             + airframe_weight_g
        payload_weight_g  == 2 * a.edf.power_w
        mtow_g            == empty_weight_g + payload_weight_g
        weight_mn         == MulDiv(mtow_g, 980665, 100000)
        ld_ratio_milli    == 7000 + 50 * a.params.endurance.percent
        cruise_ias_mkts   == EstimateModifiedCruiseSpeed(
                                 a.edf.power_w, a.params.endurance.percent)
        cruise_ias_mmps   == MulDiv(cruise_ias_mkts, 514444, 1000000)
        cruise_sq         == MulDiv(cruise_ias_mmps, cruise_ias_mmps, 1000)
        wing_area_e5m2    == MulDiv(weight_mn, 20000000, 49 * cruise_sq)
        stall_sq          == MulDiv(MulDiv(weight_mn, 200000000, wing_area_e5m2),
                                    10000, 18375)
        stall_mmps        == ISqrt(stall_sq)
        vy_mmps           == MulDiv(stall_mmps, 120, 100)
        glide_mmps        == MulDiv(stall_mmps, 131, 100)
        power_required_aero_cruise_mw ==
            MulDiv(MulDiv(weight_mn, 1000, ld_ratio_milli), cruise_ias_mmps, 1000)
        power_required_elec_cruise_mw ==
            MulDiv(power_required_aero_cruise_mw, 1000000,
                   GetPropulsiveEfficiency(a.edf, cruise_ias_mmps))
    IN  [ edf                  |-> a.edf,
          battery              |-> a.battery,
          params               |-> a.params,
          airframe_weight_g    |-> airframe_weight_g,
          payload_weight_g     |-> payload_weight_g,
          mtow_g               |-> mtow_g,
          weight_mn            |-> weight_mn,
          thrust_to_weight_ppm |-> MulDiv(a.edf.static_thrust_mn, 1000000,
                                          weight_mn),
          ld_ratio_milli       |-> ld_ratio_milli,
          cruise_ias_mkts      |-> cruise_ias_mkts,
          cruise_ias_mmps      |-> cruise_ias_mmps,
          wing_area_e5m2       |-> wing_area_e5m2,
          stall_speed_ias_mmps |-> stall_mmps,
          vr_ias_mmps          |-> MulDiv(stall_mmps, 110, 100),
          vy_ias_mmps          |-> vy_mmps,
          best_glide_ias_mmps  |-> glide_mmps,
          rate_of_climb_mfpm   |-> CalculateRateOfClimb(
                                       a.edf, weight_mn, ld_ratio_milli,
                                       vy_mmps, glide_mmps),
          cruise_power_mpct    |-> MulDiv(power_required_elec_cruise_mw, 100,
                                          a.edf.power_w) ]

----------------------------------------------------------------------------
(* edf_mission.py: FlightPath and the mission simulator.                   *)

\* A FlightPath whose total time starts at one hour.
FlightPathMutTimed ==
    [ time_ms |-> <<0>>, dist_cm |-> <<0>>, alt_ft |-> <<1>>,
      ias_mkts |-> <<0>>, battery_mpct |-> <<100000>>,
      climb_rate_mfpm |-> 0, cruise_power_mpct |-> 0, total_time_ms |-> 3600000,
      total_distance_cm |-> 0, max_altitude_ft |-> 0 ]

\* FlightPath.__init__ (edf_mission.py 15-17).
FlightPath ==
    [ time_ms |-> <<0>>, dist_cm |-> <<0>>, alt_ft |-> <<1>>,
      ias_mkts |-> <<0>>, battery_mpct |-> <<100000>>,
      climb_rate_mfpm |-> 0, cruise_power_mpct |-> 0, total_time_ms |-> 0,
      total_distance_cm |-> 0, max_altitude_ft |-> 0 ]

Last(seq) == seq[Len(seq)]

\* record_step adding the drain to the battery instead of taking it off.
RecordStepMutCharge(p, dt_ms, dist_step_cm, alt_step_ft, ias_mkts, battery_drain_mpct) ==
    [ p EXCEPT
      !.time_ms      = Append(@, Last(@) + dt_ms),
      !.dist_cm      = Append(@, Last(@) + dist_step_cm),
      !.alt_ft       = Append(@, Last(@) + alt_step_ft),
      !.ias_mkts     = Append(@, ias_mkts),
      !.battery_mpct = Append(@, Last(@) + battery_drain_mpct) ]

\* record_step leaving the airspeed column as it was.
RecordStepMutNoSpeed(p, dt_ms, dist_step_cm, alt_step_ft, ias_mkts, battery_drain_mpct) ==
    [ p EXCEPT
      !.time_ms      = Append(@, Last(@) + dt_ms),
      !.dist_cm      = Append(@, Last(@) + dist_step_cm),
      !.alt_ft       = Append(@, Last(@) + alt_step_ft),
      !.battery_mpct = Append(@, Last(@) - battery_drain_mpct) ]

\* record_step taking alt_step for the new altitude itself.
RecordStepMutAbsolute(p, dt_ms, dist_step_cm, alt_step_ft, ias_mkts, battery_drain_mpct) ==
    [ p EXCEPT
      !.time_ms      = Append(@, Last(@) + dt_ms),
      !.dist_cm      = Append(@, Last(@) + dist_step_cm),
      !.alt_ft       = Append(@, alt_step_ft),
      !.ias_mkts     = Append(@, ias_mkts),
      !.battery_mpct = Append(@, Last(@) - battery_drain_mpct) ]

\* FlightPath.record_step (edf_mission.py 19-22).
RecordStep(p, dt_ms, dist_step_cm, alt_step_ft, ias_mkts, battery_drain_mpct) ==
    [ p EXCEPT
      !.time_ms      = Append(@, Last(@) + dt_ms),
      !.dist_cm      = Append(@, Last(@) + dist_step_cm),
      !.alt_ft       = Append(@, Last(@) + alt_step_ft),
      !.ias_mkts     = Append(@, ias_mkts),
      !.battery_mpct = Append(@, Last(@) - battery_drain_mpct) ]

\* float('inf'), the value calculate_takeoff_distance returns for
\* "cannot take off": the largest integer, above every distance and time.
Inf == 2147483647

\* net_force of calculate_takeoff_distance (edf_mission.py 26-35) with
\* mu = 0.04: thrust less the drag at 0.7 Vr and the rolling friction.
NetForce(a) ==
    LET avg_velocity_mmps == MulDiv(a.vr_ias_mmps, 7, 10)
        avg_sq            == MulDiv(avg_velocity_mmps, avg_velocity_mmps, 1000)
        area_over_ld_e5m2 == MulDiv(a.wing_area_e5m2, 1000, a.ld_ratio_milli)
        drag_at_70_percent_vr_mn ==
            MulDiv(MulDiv(avg_sq, area_over_ld_e5m2, 100000), 6125, 10000)
        rolling_friction_mn == MulDiv(a.weight_mn, 4, 100)
    IN  a.edf.static_thrust_mn - drag_at_70_percent_vr_mn - rolling_friction_mn

\* calculate_takeoff_distance (edf_mission.py 24-42):
\* <<distance_cm, time_ms>>, or <<Inf, Inf>>.
CalculateTakeoffDistance(a) ==
    LET net_force_mn == NetForce(a)
        acceleration_umps2 == MulDiv(net_force_mn, 1000000, a.mtow_g)
        vr_sq == MulDiv(a.vr_ias_mmps, a.vr_ias_mmps, 1000)
    IN  IF net_force_mn <= 0 THEN <<Inf, Inf>>
        ELSE << MulDiv(vr_sq, 50000, acceleration_umps2),
                MulDiv(a.vr_ias_mmps, 1000000, acceleration_umps2) >>

\* The test of line 51 dropped: the mission goes on whatever the roll.
CannotTakeOffMutIgnored(takeoff_dist_cm) == FALSE

\* takeoff_dist_m == float('inf') (edf_mission.py 51).
CannotTakeOff(takeoff_dist_cm) == takeoff_dist_cm = Inf

\* rho / RHO_SL in ppm at AltKnots ft, from the ISA lines of the simulator
\* (edf_mission.py 65-67, 100-102, 127-129): temp_k = 288.15 - 0.0065 h,
\* pressure_pa = 101325 (1 - 0.0065 h / 288.15)^5.256, rho = p / (287.05 T).
AltKnots ==
    << 0, 2500, 5000, 7500, 10000, 12500, 15000, 17500,
       20000, 22500, 25000, 27500, 30000, 32500, 35000, 37500,
       40000, 42500, 45000, 47500, 50000 >>

RhoPpm ==
    << 1000010, 928874, 861675, 798261, 738480, 682186, 629236, 579488,
       532807, 489059, 448113, 409843, 374126, 340839, 309868, 281097,
       254415, 229716, 206895, 185849, 166483 >>

DensityRatio(alt_ft) == Interp(AltKnots, RhoPpm, alt_ft)

\* 10000 * sqrt(RHO_SL / rho) and 10000 * sqrt(rho / RHO_SL).
SqrtInvDensity(rho_ppm) == ISqrt(MulDiv(100000000, 1000000, rho_ppm))

SqrtDensity(rho_ppm) == ISqrt(rho_ppm * 100)

\* m/s to knots, * 1.94384 (edf_mission.py 56, 94, 134).
Knots(v_mmps) == MulDiv(v_mmps, 194384, 100000)

\* The takeoff sample (edf_mission.py 55-56): full power for the roll.
TakeoffRecord(a, p, takeoff_dist_cm, takeoff_time_ms) ==
    LET takeoff_energy_drain_mpct ==
            MulDiv(MulDiv(a.edf.power_w, takeoff_time_ms, 1000), 100000,
                   a.battery.total_energy_j)
    IN  RecordStep(p, takeoff_time_ms, takeoff_dist_cm, 0,
                   Knots(a.vr_ias_mmps), takeoff_energy_drain_mpct)

\* The loop's condition without its altitude ceiling.
ClimbGuardMutNoCeiling(p) == Last(p.battery_mpct) > 75000

\* The climb loop's condition (edf_mission.py 62).
ClimbGuard(p) ==
    Last(p.battery_mpct) > 75000 /\ Last(p.alt_ft) < 45000

\* One pass of the climb loop's body up to the test of line 85
\* (edf_mission.py 63-83).
ClimbQuantities(a, p) ==
    Only({ Only({ Only({
        [ tas_mmps |-> tas_mmps,
          power_available_elec_mw |-> power_available_elec_mw,
          excess_power_mw |->
              MulDiv(power_available_elec_mw,
                     GetPropulsiveEfficiency(a.edf, tas_mmps), 1000000)
              - MulDiv(DragAtVy(MulDiv(a.weight_mn, 1000, a.ld_ratio_milli),
                                MulDiv(tas_mmps, 1000000,
                                       MulDiv(a.best_glide_ias_mmps,
                                              sqrt_inv, 10000))),
                       tas_mmps, 1000) ] :
        tas_mmps \in {MulDiv(a.vy_ias_mmps, sqrt_inv, 10000)},
        power_available_elec_mw \in {MulDiv(a.edf.power_w, rho_ppm, 1000)} }) :
      sqrt_inv \in {SqrtInvDensity(rho_ppm)} }) :
    rho_ppm \in {DensityRatio(Last(p.alt_ft))} })

\* The step of 250 ft recorded for given climb quantities q, rate of climb
\* and time to climb (edf_mission.py 89-94).
ClimbStepRecord(a, p, q, roc_umps, time_to_climb_ms) ==
    Only({ IF p.climb_rate_mfpm = 0
           THEN [stepped EXCEPT
                     !.climb_rate_mfpm = MulDiv(roc_umps, 19685, 100000)]
           ELSE stepped :
           stepped \in {RecordStep(p, time_to_climb_ms,
                            MulDiv(q.tas_mmps, time_to_climb_ms, 10000), 250,
                            Knots(a.vy_ias_mmps),
                            MulDiv(MulDiv(q.power_available_elec_mw,
                                          time_to_climb_ms, 1000000),
                                   100000, a.battery.total_energy_j))} })

\* The rest of the body (edf_mission.py 87-94): one 250 ft step.
ClimbRecord(a, p) ==
    Only({ Only({ Only({ ClimbStepRecord(a, p, q, roc_umps, time_to_climb_ms) :
        time_to_climb_ms \in
            {MulDiv(MulDiv(250, 3048, 10) * 1000, 1000, roc_umps)} }) :
      roc_umps \in {MulDiv(q.excess_power_mw, 1000000, a.weight_mn)} }) :
    q \in {ClimbQuantities(a, p)} })

\* usable_cruise_energy_j > 0 (edf_mission.py 97-98): the sign of
\* ((battery_pct - 10) / 100) * total_energy_j, exactly.
UsableCruiseEnergyPositive(a, p) ==
    \/ Last(p.battery_mpct) > 10000 /\ a.battery.total_energy_j > 0
    \/ Last(p.battery_mpct) < 10000 /\ a.battery.total_energy_j < 0

\* power_req_elec_cruise (edf_mission.py 99-107), in mW.
CruisePowerRequired(a, p) ==
    LET rho_ppm == DensityRatio(Last(p.alt_ft))
        cruise_tas_mmps == MulDiv(a.cruise_ias_mmps, 10000, SqrtDensity(rho_ppm))
        thrust_req_cruise_mn == MulDiv(a.weight_mn, 1000, a.ld_ratio_milli)
        power_req_prop_cruise_mw == MulDiv(thrust_req_cruise_mn, cruise_tas_mmps,
                                           1000)
    IN  [ cruise_tas_mmps |-> cruise_tas_mmps,
          power_req_elec_cruise_mw |->
              MulDiv(power_req_prop_cruise_mw, 1000000,
                     GetPropulsiveEfficiency(a.edf, cruise_tas_mmps)) ]

\* The cruise phase (edf_mission.py 97-115).
CruisePhase(a, p) ==
    IF ~UsableCruiseEnergyPositive(a, p) THEN p
    ELSE LET usable_cruise_energy_j ==
                 MulDiv(Last(p.battery_mpct) - 10000, a.battery.total_energy_j,
                        100000)
             c == CruisePowerRequired(a, p)
             flagged == [p EXCEPT !.cruise_power_mpct =
                             MulDiv(c.power_req_elec_cruise_mw, 100, a.edf.power_w)]
             cruise_time_ms == MulDiv(usable_cruise_energy_j, 1000000,
                                      c.power_req_elec_cruise_mw)
             dist_step_cm == MulDiv(c.cruise_tas_mmps, cruise_time_ms, 10000)
             battery_drain_mpct == Last(p.battery_mpct) - 10000
         IN  IF c.power_req_elec_cruise_mw > 0
             THEN RecordStep(flagged, cruise_time_ms, dist_step_cm, 0,
                             a.cruise_ias_mkts, battery_drain_mpct)
             ELSE flagged

\* Whether CruisePhase records its sample.
CruiseRuns(a, p) ==
    /\ UsableCruiseEnergyPositive(a, p)
    /\ CruisePowerRequired(a, p).power_req_elec_cruise_mw > 0

\* The greatest element of a non-empty sequence of integers.
SeqMax(seq) == CHOOSE m \in {seq[i] : i \in 1..Len(seq)} :
                   \A i \in 1..Len(seq) : seq[i] <= m

\* The descent phase and the summary (edf_mission.py 118-138).
\* tan(atan(1/ld)) = 1/ld and sin(atan(1/ld)) = 1/sqrt(1 + ld^2).
DescentPhase(a, p) ==
    LET descent_alt_ft  == Last(p.alt_ft)
        descent_dist_cm == MulDiv(descent_alt_ft * 3048, a.ld_ratio_milli, 100000)
        rho_ppm         == DensityRatio(descent_alt_ft \div 2)
        avg_tas_mmps    == MulDiv(a.best_glide_ias_mmps, SqrtInvDensity(rho_ppm),
                                  10000)
        sin_glide_ppm   == MulDiv(1000000, 1000,
                               ISqrt(1000000 + a.ld_ratio_milli * a.ld_ratio_milli))
        sink_rate_mmps  == MulDiv(avg_tas_mmps, sin_glide_ppm, 1000000)
        descent_time_ms == IF sink_rate_mmps > 0
                           THEN MulDiv(MulDiv(descent_alt_ft, 3048, 10), 1000,
                                       sink_rate_mmps)
                           ELSE 0
        q == RecordStep(p, descent_time_ms, descent_dist_cm, -descent_alt_ft,
                        Knots(a.best_glide_ias_mmps), 0)
    IN  [ q EXCEPT !.total_distance_cm = Last(q.dist_cm),
                   !.total_time_ms     = Last(q.time_ms),
                   !.max_altitude_ft   = SeqMax(q.alt_ft) ]

----------------------------------------------------------------------------
(* The parts catalogues (process_uav_data.py): pandas frames whose rows    *)
(* map column names to values.                                             *)

\* row.get(key, default) of a pandas Series or of a dict.
Get(row, key, default) == IF key \in DOMAIN row THEN row[key] ELSE default

\* frame.iloc[i]: positions 0..N-1 count from the first row, positions
\* -N..-1 count back from the last row, every other position raises
\* IndexError.
IlocRaises(frame, i) == i >= Len(frame) \/ i < -Len(frame)

Iloc(frame, i) == IF i >= 0 THEN frame[i + 1] ELSE frame[Len(frame) + i + 1]

\* The EDF frame (process_uav_data.py 272-276): power in W, thrust in mN,
\* Weight_g = 0.1 * power (line 252) in g, the estimated weights in g.
EdfSummary ==
    << ("Model ID" :> "E500") @@ ("Power (W)" :> 500) @@ ("Thrust (N)" :> 9000)
          @@ ("Weight_g" :> 50) @@ ("battery_weight_kg" :> 1000)
          @@ ("mtow_kg" :> 3000),
       ("Model ID" :> "E2000") @@ ("Power (W)" :> 2000) @@ ("Thrust (N)" :> 30000)
          @@ ("Weight_g" :> 200) @@ ("battery_weight_kg" :> 4000)
          @@ ("mtow_kg" :> 12000),
       ("Model ID" :> "E8000") @@ ("Power (W)" :> 8000) @@ ("Thrust (N)" :> 90000)
          @@ ("Weight_g" :> 800) @@ ("battery_weight_kg" :> 16000)
          @@ ("mtow_kg" :> 40000) >>

\* The battery frame (process_uav_data.py 300-333): weight in g, capacity
\* in mAh, energy in Wh, voltage in mV.
BatterySummary ==
    << ("Model Number" :> "B5000") @@ ("weight_g" :> 700)
          @@ ("capacity_Ah" :> 5000) @@ ("energy_Wh" :> 111)
          @@ ("nominalV" :> 22200),
       ("Model Number" :> "B16000") @@ ("weight_g" :> 2000)
          @@ ("capacity_Ah" :> 16000) @@ ("energy_Wh" :> 355)
          @@ ("nominalV" :> 22200) >>

\* The engine frame (process_uav_data.py 230): weights in g, thrust in mN,
\* speed in milliknots.
GasEngineSummary ==
    << ("ModelID" :> "G26") @@ ("Weight_kg" :> 900)
          @@ ("Estimated Thrust (N)" :> 50000)
          @@ ("Estimated Useful Load (kg)" :> 4000)
          @@ ("Estimated Max Fuel (kg)" :> 1500)
          @@ ("Estimated MTOW (kg)" :> 10000)
          @@ ("Estimated Cruise Speed (knots)" :> 54000)
          @@ ("Speed (RPM)" :> 7000),
       ("ModelID" :> "G62") @@ ("Weight_kg" :> 1900)
          @@ ("Estimated Thrust (N)" :> 120000)
          @@ ("Estimated Useful Load (kg)" :> 9000)
          @@ ("Estimated Max Fuel (kg)" :> 3000)
          @@ ("Estimated MTOW (kg)" :> 25000)
          @@ ("Estimated Cruise Speed (knots)" :> 65000)
          @@ ("Speed (RPM)" :> 6000) >>

\* The propeller frame: sizes in inches, price in USD.
PropellersDf ==
    << ("Diameter (in)" :> 18) @@ ("Pitch (in)" :> 8) @@ ("Price (USD)" :> 20)
          @@ ("Number of Blades" :> 2),
       ("Diameter (in)" :> 22) @@ ("Pitch (in)" :> 10) @@ ("Price (USD)" :> 35)
          @@ ("Number of Blades" :> 3),
       ("Diameter (in)" :> 20) @@ ("Pitch (in)" :> 0) @@ ("Price (USD)" :> 25)
          @@ ("Number of Blades" :> 2) >>

\* The frames process_uav_data.init() loads at import.
Catalogs ==
    [ edf |-> EdfSummary, battery |-> BatterySummary,
      engine |-> GasEngineSummary, propeller |-> PropellersDf ]

----------------------------------------------------------------------------
(* run_mission_simulation (edf_mission.py 44-139) as a state machine.      *)

\* The propulsors flown: two sized by EDF.from_power, one of 16 kW in a
\* light casing, and one catalog fan of low thrust.
SmallEDF == FromPower(500)

MediumEDF == FromPower(2000)

LightEDF == EDF(16000, FromPower(16000).static_thrust_mn, 50, 400)

WeakEDF == EDF(500, 5000, 1113, 70)

\* The batteries flown: a virtual 5 kg pack, a 5 kg pack of 20 Wh, a light
\* pack of 30 kWh and a heavy pack of 200 Wh.
VirtualPack == FromCAndWeight(30, 5000, 6, 1)

DrainedPack == Battery(5000, 30, 20, 22200, 1)

DensePack == Battery(10, 30, 30000, 22200, 1)

HeavyPack == Battery(60000, 30, 200, 22200, 1)

\* The <<edf, battery>> pairs flown.
MissionFleet ==
    { <<SmallEDF, VirtualPack>>, <<SmallEDF, DrainedPack>>,
      <<SmallEDF, HeavyPack>>, <<MediumEDF, VirtualPack>>,
      <<MediumEDF, DensePack>>, <<MediumEDF, HeavyPack>>,
      <<LightEDF, VirtualPack>>, <<LightEDF, DensePack>>,
      <<WeakEDF, VirtualPack>>, <<WeakEDF, HeavyPack>> }

EndurancePercents == {0, 50, 100}

\* Aircraft(edf, battery, params) for a battery that passes the check of
\* edf_config.py 41.
BuiltAircraft(edf, bat, params) == AircraftDerive(AircraftShell(edf, bat, params))

MissionInit ==
    /\ scenario = "mission"
    /\ catalogs = Catalogs
    /\ search = None
    /\ \E f \in MissionFleet, e \in EndurancePercents :
           /\ ~CannotSupply(f[2], f[1].power_w)
           /\ aircraft = BuiltAircraft(f[1], f[2],
                                       WithEndurancePercent(FixedWingParameters, e))
    /\ args = [aircraft |-> aircraft]
    /\ battery = aircraft.battery
    /\ design = None
    /\ result = None
    /\ outcome = "pending"
    /\ pc = "TAKEOFF"
    /\ path = FlightPath
    /\ executed = <<>>

\* The calls that run a mission: run_mission_simulation itself, fitness,
\* whose first statement calls it (edf_fitness.py 20), and the searches,
\* which call fitness for every candidate they build (edf_opt.py 52, 85).
MissionCallers ==
    {"mission", "fitness", "find_best_edf", "find_best_real_battery"}

\* Where run_mission_simulation returns to: the end of the call, or the
\* scoring of fitness (edf_fitness.py 23).
MissionReturn == IF scenario = "mission" THEN "DONE" ELSE "SCORE"

MissionOutcome == IF scenario = "mission" THEN "returned" ELSE outcome

\* Phase 1 (edf_mission.py 50-56): the takeoff roll, or the early return.
Takeoff ==
    /\ scenario \in MissionCallers /\ pc = "TAKEOFF"
    /\ LET t == CalculateTakeoffDistance(aircraft)
       IN  IF CannotTakeOff(t[1])
           THEN /\ pc' = MissionReturn
                /\ outcome' = MissionOutcome
                /\ UNCHANGED <<path, executed>>
           ELSE /\ path' = TakeoffRecord(aircraft, path, t[1], t[2])
                /\ executed' = Append(executed, "TAKEOFF")
                /\ pc' = "CLIMB"
                /\ UNCHANGED outcome
    /\ UNCHANGED <<catalogs, search, scenario, args, battery, aircraft, design,
                   result>>

\* Phase 2 (edf_mission.py 62-94): one pass of the loop that records a step.
ClimbStep ==
    /\ scenario \in MissionCallers /\ pc = "CLIMB"
    /\ ClimbGuard(path)
    /\ ClimbQuantities(aircraft, path).excess_power_mw > 0
    /\ path' = ClimbRecord(aircraft, path)
    /\ executed' = Append(executed, "CLIMB")
    /\ UNCHANGED <<catalogs, search, scenario, args, battery, aircraft, design,
                   result, outcome, pc>>

\* Phase 2: the loop ends, by its condition (line 62) or by the break of
\* line 85.
ClimbExit ==
    /\ scenario \in MissionCallers /\ pc = "CLIMB"
    /\ \/ ~ClimbGuard(path)
       \/ ClimbQuantities(aircraft, path).excess_power_mw <= 0
    /\ pc' = "CRUISE"
    /\ UNCHANGED <<catalogs, search, scenario, args, battery, aircraft, design,
                   result, outcome, path, executed>>

\* Phase 3 (edf_mission.py 97-115).
Cruise ==
    /\ scenario \in MissionCallers /\ pc = "CRUISE"
    /\ path' = CruisePhase(aircraft, path)
    /\ executed' = IF CruiseRuns(aircraft, path)
                   THEN Append(executed, "CRUISE") ELSE executed
    /\ pc' = "DESCENT"
    /\ UNCHANGED <<catalogs, search, scenario, args, battery, aircraft, design,
                   result, outcome>>

\* Phase 4 and the summary (edf_mission.py 118-139).
Descent ==
    /\ scenario \in MissionCallers /\ pc = "DESCENT"
    /\ path' = DescentPhase(aircraft, path)
    /\ executed' = Append(executed, "DESCENT")
    /\ pc' = MissionReturn
    /\ outcome' = MissionOutcome
    /\ UNCHANGED <<catalogs, search, scenario, args, battery, aircraft, design,
                   result>>

----------------------------------------------------------------------------
(* Battery.check_power_output (lipo.py 25-28) as a state machine.          *)

\* Packs of 1 .. MaxPackEnergyWh Wh, alone or in pairs, at 1 C and 30 C.
MaxPackEnergyWh == 3

CheckedBatteries ==
    { Battery(500, c, e, 22200, n) :
          c \in {1, 30}, e \in 1..MaxPackEnergyWh, n \in 1..2 }

\* Required powers 0, 25, .. , 25 * MaxPowerStep W.
MaxPowerStep == 8

RequiredPowers == { 25 * k : k \in 0..MaxPowerStep }

CheckInit ==
    /\ scenario = "check_power_output"
    /\ catalogs = Catalogs
    /\ search = None
    /\ \E b \in CheckedBatteries, r \in RequiredPowers :
           /\ args = [self |-> b, required_power_w |-> r]
           /\ battery = b
    /\ aircraft = None
    /\ design = None
    /\ path = None
    /\ executed = <<>>
    /\ result = None
    /\ outcome = "pending"
    /\ pc = "CALL"

\* Battery.check_power_output (lipo.py 25-28).
CheckPowerOutput ==
    /\ scenario = "check_power_output" /\ pc = "CALL"
    /\ outcome' = IF CannotSupply(battery, args.required_power_w)
                  THEN "raised" ELSE "returned"
    /\ pc' = "DONE"
    /\ UNCHANGED <<catalogs, search, scenario, args, battery, aircraft, design,
                   path, executed, result>>

----------------------------------------------------------------------------
(* Aircraft(...) and Aircraft.with_virtual_battery (edf_config.py 38-91)   *)
(* as a state machine.                                                     *)

ConstructEDFs == {SmallEDF, MediumEDF}

\* A 3 kg pack of 550 W: above the 500 W of SmallEDF, below 1.2 times it.
MarginPack == Battery(3000, 1, 550, 22200, 1)

\* A pack constructed with a weight of -5 kg, which Battery.__init__ accepts
\* (lipo.py 8-17); its 3000 W pass the power check of both fans.
NegativePack == Battery(-5000, 30, 100, 22200, 1)

ConstructBatteries ==
    {VirtualPack, DrainedPack, HeavyPack, MarginPack, NegativePack}

VirtualCRatings == {0, 1, 30, 50}

\* b_m_ratio in percent.
BatteryMotorRatiosPct == {0, 1, 100, 250}

ConstructInit ==
    /\ scenario = "construct"
    /\ catalogs = Catalogs
    /\ search = None
    /\ \E edf \in ConstructEDFs, e \in EndurancePercents :
           LET params == WithEndurancePercent(FixedWingParameters, e)
           IN  \/ \E bat \in ConstructBatteries :
                      /\ args = [entry |-> "Aircraft", edf |-> edf,
                                 battery |-> bat, params |-> params]
                      /\ battery = bat
                      /\ pc = "INIT"
               \/ \E c \in VirtualCRatings, r \in BatteryMotorRatiosPct :
                      /\ args = [entry |-> "with_virtual_battery", edf |-> edf,
                                 params |-> params, c_rating |-> c,
                                 b_m_ratio_pct |-> r]
                      /\ battery = None
                      /\ pc = "ENTRY"
    /\ aircraft = None
    /\ design = None
    /\ path = None
    /\ executed = <<>>
    /\ result = None
    /\ outcome = "pending"

\* Aircraft.with_virtual_battery (edf_config.py 86-91) up to the call of
\* the constructor; from_c_and_weight may raise (lipo.py 33).
WithVirtualBattery ==
    /\ scenario = "construct" /\ pc = "ENTRY"
    /\ LET battery_weight_g == MulDiv(args.edf.weight_g, args.b_m_ratio_pct, 100)
           virtual_battery  == FromCAndWeight(args.c_rating, battery_weight_g,
                                              6, 1)
       IN  IF virtual_battery = None
           THEN /\ outcome' = "raised"
                /\ pc' = "DONE"
                /\ UNCHANGED battery
           ELSE /\ battery' = virtual_battery
                /\ pc' = "INIT"
                /\ UNCHANGED outcome
    /\ UNCHANGED <<catalogs, search, scenario, args, aircraft, design, path,
                   executed, result>>

\* Aircraft.__init__ line 39.
AircraftInitStore ==
    /\ scenario = "construct" /\ pc = "INIT"
    /\ aircraft' = AircraftShell(args.edf, battery, args.params)
    /\ pc' = "CHECK"
    /\ UNCHANGED <<catalogs, search, scenario, args, battery, design, path,
                   executed, result, outcome>>

\* Aircraft.__init__ line 41: self.battery.check_power_output(edf.power_w).
AircraftInitCheck ==
    /\ scenario = "construct" /\ pc = "CHECK"
    /\ IF CannotSupply(aircraft.battery, aircraft.edf.power_w)
       THEN outcome' = "raised" /\ pc' = "DONE"
       ELSE outcome' = outcome /\ pc' = "DERIVE"
    /\ UNCHANGED <<catalogs, search, scenario, args, battery, aircraft, design,
                   path, executed, result>>

\* Aircraft.__init__ lines 42-76, and the return of the new object.
AircraftInitDerive ==
    /\ scenario = "construct" /\ pc = "DERIVE"
    /\ aircraft' = AircraftDerive(aircraft)
    /\ outcome' = "returned"
    /\ pc' = "DONE"
    /\ UNCHANGED <<catalogs, search, scenario, args, battery, design, path,
                   executed, result>>

----------------------------------------------------------------------------
(* Aircraft.design_from_mission (edf_config.py 121-168) as a state machine.*)

\* range(15) (edf_config.py 144).
MaxIterations == 15

\* Initial MTOW guesses, in g.
DesignGuesses == {1000, 5000, 15000, 50000}

\* rules["cruise_power_target"], in percent.
CruisePowerTargets == {10, 20, 40, 70, 100}

DesignBatteries == {VirtualPack, DrainedPack}

DesignInit ==
    /\ scenario = "design_from_mission"
    /\ catalogs = Catalogs
    /\ search = None
    /\ \E g \in DesignGuesses, t \in CruisePowerTargets,
          b \in DesignBatteries, e \in EndurancePercents :
           /\ args = [params |-> WithEndurancePercent(FixedWingParameters, e),
                      rules |-> [cruise_power_target |-> t],
                      initial_mtow_guess_g |-> g, battery |-> b]
           /\ battery = b
    /\ aircraft = None
    /\ design = None
    /\ path = None
    /\ executed = <<>>
    /\ result = None
    /\ outcome = "pending"
    /\ pc = "SETUP"

\* The lines before the loop (edf_config.py 130-141): the fixed cruise speed
\* and the propulsive efficiency of a notional motor at that speed.
DesignSetup ==
    /\ scenario = "design_from_mission" /\ pc = "SETUP"
    /\ LET representative_notional_power_w ==
               MulDiv(args.initial_mtow_guess_g,
                      IF args.rules.cruise_power_target > 80 THEN 220 ELSE 150,
                      1000)
           cruise_ias_mkts == EstimateModifiedCruiseSpeed(
                                  representative_notional_power_w,
                                  args.params.endurance.percent)
           cruise_ias_mmps == MulDiv(cruise_ias_mkts, 514444, 1000000)
           notional_edf    == FromPower(representative_notional_power_w)
       IN  design' = [ mtow_guess_g    |-> args.initial_mtow_guess_g,
                       cruise_ias_mmps |-> cruise_ias_mmps,
                       propulsive_eff_at_cruise_ppm |->
                           GetPropulsiveEfficiency(notional_edf, cruise_ias_mmps),
                       edf |-> None,
                       i   |-> 0 ]
    /\ pc' = "LOOP"
    /\ UNCHANGED <<catalogs, search, scenario, args, battery, aircraft, path,
                   executed, result, outcome>>

\* The convergence test with a tolerance of 10 % for 1 %.
ConvergedMutLoose(new_mtow_g, mtow_guess_g) ==
    10 * Abs(new_mtow_g - mtow_guess_g) < mtow_guess_g

\* abs(new_mtow_kg - mtow_guess_kg) / mtow_guess_kg < 0.01
\* (edf_config.py 162), for a positive guess.
Converged(new_mtow_g, mtow_guess_g) ==
    100 * Abs(new_mtow_g - mtow_guess_g) < mtow_guess_g

\* The next guess taken to be the new MTOW alone.
NextGuessMutReplace(mtow_guess_g, new_mtow_g) == new_mtow_g

\* mtow_guess_kg * 0.5 + new_mtow_kg * 0.5 (edf_config.py 165).
NextGuess(mtow_guess_g, new_mtow_g) == (mtow_guess_g + new_mtow_g) \div 2

\* required_motor_power_w of one pass of the loop (edf_config.py 144-154).
RequiredMotorPower(d, params, rules) ==
    LET ld_ratio_milli    == 7000 + 50 * params.endurance.percent
        weight_mn         == MulDiv(d.mtow_guess_g, 980665, 100000)
        power_req_aero_mw == MulDiv(MulDiv(weight_mn, 1000, ld_ratio_milli),
                                    d.cruise_ias_mmps, 1000)
        power_req_elec_mw == MulDiv(power_req_aero_mw, 1000000,
                                    d.propulsive_eff_at_cruise_ppm)
    IN  MulDiv(power_req_elec_mw, 1, 10 * rules.cruise_power_target)

\* One pass of the loop (edf_config.py 144-165): size the motor, build the
\* temporary aircraft (which may raise, line 41), test the convergence.
DesignIteration ==
    /\ scenario = "design_from_mission" /\ pc = "LOOP"
    /\ design.i < MaxIterations
    /\ LET edf == FromPower(RequiredMotorPower(design, args.params, args.rules))
           temp_aircraft == BuiltAircraft(edf, args.battery, args.params)
           new_mtow_g    == temp_aircraft.mtow_g
       IN  IF CannotSupply(args.battery, edf.power_w)
           THEN /\ design' = [design EXCEPT !.edf = edf]
                /\ outcome' = "raised"
                /\ pc' = "DONE"
                /\ UNCHANGED aircraft
           ELSE /\ aircraft' = temp_aircraft
                /\ IF Converged(new_mtow_g, design.mtow_guess_g)
                   THEN /\ design' = [design EXCEPT !.edf = edf, !.i = @ + 1]
                        /\ outcome' = "returned"
                        /\ pc' = "DONE"
                   ELSE /\ design' = [design EXCEPT
                                          !.edf = edf, !.i = @ + 1,
                                          !.mtow_guess_g = NextGuess(@, new_mtow_g)]
                        /\ UNCHANGED <<outcome, pc>>
    /\ UNCHANGED <<catalogs, search, scenario, args, battery, path, executed,
                   result>>

\* The loop ran out (edf_config.py 168): the last aircraft is returned.
DesignReturnLast ==
    /\ scenario = "design_from_mission" /\ pc = "LOOP"
    /\ design.i = MaxIterations
    /\ outcome' = "returned"
    /\ pc' = "DONE"
    /\ UNCHANGED <<catalogs, search, scenario, args, battery, aircraft, design,
                   path, executed, result>>

----------------------------------------------------------------------------
(* LogScaledParameter.score (uav_parameters.py 86-120).                    *)

\* score without its case for a range that is a single point.
ScoreMutNoScalar(p, actual_h) ==
    IF actual_h < 2 * p.min_val THEN <<actual_h, 2 * p.min_val>>
    ELSE IF actual_h > 2 * p.max_val THEN <<2 * p.max_val, actual_h>>
    ELSE IF p.max_val - p.min_val <= 0 THEN <<1, 1>>
    ELSE << Max(0, (p.max_val - p.min_val)
                     - Abs(actual_h - (p.min_val + p.max_val))),
            p.max_val - p.min_val >>

\* LogScaledParameter.score of the value actual_h / 2, as the fraction
\* <<numerator, denominator>> with a positive denominator.  center_h and
\* max_distance are twice center_value and max_distance_from_center.
Score(p, actual_h) ==
    LET target_min == p.min_val
        target_max == p.max_val
        center_h     == target_min + target_max
        max_distance == target_max - target_min
        distance     == Abs(actual_h - center_h)
    IN  IF target_min = target_max
        THEN IF actual_h <= 0 \/ target_min <= 0 THEN <<0, 1>>
             ELSE << Min(actual_h, 2 * target_min),
                     Max(actual_h, 2 * target_min) >>
        ELSE IF actual_h < 2 * target_min THEN <<actual_h, 2 * target_min>>
        ELSE IF actual_h > 2 * target_max THEN <<2 * target_max, actual_h>>
        ELSE IF max_distance <= 0 THEN <<1, 1>>
        ELSE <<Max(0, max_distance - distance), max_distance>>

\* Order and equality of fractions with positive denominators.
Less(x, y) == x[1] * y[2] < y[1] * x[2]

Same(x, y) == x[1] * y[2] = y[1] * x[2]

\* Ranges min_val <= max_val within 1 .. MaxScoreValue, as the constructor
\* accepts them (uav_parameters.py 20-25).
MaxScoreValue == 4

ScoreParameters ==
    { LogScaledParameter(r[1], r[2]) :
          r \in { q \in (1..MaxScoreValue) \X (1..MaxScoreValue) : q[1] <= q[2] } }

\* Actual values, in halves: from -1 to MaxScoreValue + 2.
ActualValues == -2..(2 * MaxScoreValue + 4)

ScoreInit ==
    /\ scenario = "score"
    /\ catalogs = Catalogs
    /\ search = None
    /\ \E p \in ScoreParameters, a \in ActualValues :
           args = [self |-> p, actual_value_h |-> a]
    /\ battery = None
    /\ aircraft = None
    /\ design = None
    /\ path = None
    /\ executed = <<>>
    /\ result = None
    /\ outcome = "pending"
    /\ pc = "CALL"

\* The call of score (uav_parameters.py 86-120).
ScoreCall ==
    /\ scenario = "score" /\ pc = "CALL"
    /\ result' = Score(args.self, args.actual_value_h)
    /\ outcome' = "returned"
    /\ pc' = "DONE"
    /\ UNCHANGED <<catalogs, search, scenario, args, battery, aircraft, design,
                   path, executed>>

----------------------------------------------------------------------------
(* fitness (edf_fitness.py 14-35) as a state machine: the mission of line  *)
(* 20 runs by the actions above, then the scores are taken.                *)

\* LogScaledParameter.value (uav_parameters.py 38-45) at the ends and in the
\* middle of the log scale: exp(log_min + percent/100 * (log_max - log_min))
\* is min, sqrt(min * max), max at 0, 50, 100 percent.  For min * max < 2^31.
Value(p) ==
    CASE p.percent = 0   -> p.min_val
      [] p.percent = 50  -> ISqrt(p.min_val * p.max_val)
      [] p.percent = 100 -> p.max_val

\* set_range (edf_fitness.py 37-40).
SetRange(param, min_val, max_val) ==
    [param EXCEPT !.min_val = min_val, !.max_val = max_val]

\* The targets scored against: the defaults, and the ranges set by
\* edf_fitness.py 49-52 and by edf_opt.py 109-112.
BalancedTarget ==
    [ FixedWingParameters EXCEPT
      !.takeoff_weight   = SetRange(@, 10000, 20000),
      !.cruise_speed     = SetRange(@, 100000, 150000),
      !.endurance        = SetRange(@, 3600, 7200),
      !.payload_capacity = SetRange(@, 1000, 3000) ]

OptimizedTarget ==
    [ FixedWingParameters EXCEPT
      !.takeoff_weight   = SetRange(@, 5000, 25000),
      !.cruise_speed     = SetRange(@, 100000, 200000),
      !.endurance        = SetRange(@, 1800, 7200),
      !.payload_capacity = SetRange(@, 1000, 5000) ]

FitnessTargets == {FixedWingParameters, BalancedTarget, OptimizedTarget}

\* The <<edf, battery>> pairs scored.
FitnessFleet ==
    { <<SmallEDF, VirtualPack>>, <<SmallEDF, DrainedPack>>,
      <<MediumEDF, VirtualPack>>, <<MediumEDF, HeavyPack>>,
      <<WeakEDF, VirtualPack>> }

\* Scores are kept in units of 1/ScoreScale; ScoreScale^5 < 2^31.
ScoreScale == 64

\* A score <<num, den>> in units of 1/ScoreScale, rounded up: a score is 0
\* in these units exactly when it is 0.
Scaled(fraction) == -MulDiv(-fraction[1], ScoreScale, fraction[2])

\* The five scores (edf_fitness.py 23-29), each of the actual value against
\* the target range: kg, km/h, hours, kg, and wing area over wingspan.
ParameterScores(params, a, mission_path) ==
    [ takeoff_weight   |-> Scaled(Score(params.takeoff_weight, 2 * a.mtow_g)),
      cruise_speed     |->
          Scaled(Score(params.cruise_speed,
                       2 * MulDiv(a.cruise_ias_mkts, 1852, 1000))),
      endurance        |->
          Scaled(Score(params.endurance,
                       2 * (mission_path.total_time_ms \div 1000))),
      payload_capacity |->
          Scaled(Score(params.payload_capacity, 2 * a.payload_weight_g)),
      wingspan         |->
          Scaled(Score(params.wingspan,
                       2 * MulDiv(a.wing_area_e5m2, 10, Value(params.wingspan)))) ]

\* math.prod(score_values) (edf_fitness.py 33), in units of 1/ScoreScale^5.
Prod(scores) ==
    scores.takeoff_weight * scores.cruise_speed * scores.endurance
        * scores.payload_capacity * scores.wingspan

\* The fifth root of n, 0 <= n <= ScoreScale^5, rounded down.
Root5(n) ==
    CHOOSE r \in 0..ScoreScale :
        /\ r * r * r * r * r <= n
        /\ n < (r + 1) * (r + 1) * (r + 1) * (r + 1) * (r + 1)

OverallScoreMutMean(scores) ==
    (scores.takeoff_weight + scores.cruise_speed + scores.endurance + scores.payload_capacity + scores.wingspan) \div 5

\* overall_score (edf_fitness.py 32-33): prod ** (1 / 5), in 1/ScoreScale.
OverallScore(scores) == Root5(Prod(scores))

\* Fitness(overall_score, scores) (edf_fitness.py 6-9, 35).
Fitness(fitness_score, parameter_scores) ==
    [ fitness_score |-> fitness_score, parameter_scores |-> parameter_scores ]

FitnessInit ==
    /\ scenario = "fitness"
    /\ catalogs = Catalogs
    /\ search = None
    /\ \E f \in FitnessFleet, e \in EndurancePercents, t \in FitnessTargets :
           /\ aircraft = BuiltAircraft(f[1], f[2],
                                       WithEndurancePercent(FixedWingParameters, e))
           /\ args = [params |-> t, aircraft |-> aircraft]
    /\ battery = aircraft.battery
    /\ design = None
    /\ result = None
    /\ outcome = "pending"
    /\ pc = "TAKEOFF"
    /\ path = FlightPath
    /\ executed = <<>>

\* fitness after the mission has returned (edf_fitness.py 23-35).
FitnessScore ==
    /\ scenario = "fitness" /\ pc = "SCORE"
    /\ result' = Only({ Fitness(OverallScore(scores), scores) :
                        scores \in {ParameterScores(args.params, aircraft, path)} })
    /\ outcome' = "returned"
    /\ pc' = "DONE"
    /\ UNCHANGED <<catalogs, search, scenario, args, battery, aircraft, design,
                   path, executed>>

----------------------------------------------------------------------------
(* The value and percent setters of LogScaledParameter                     *)
(* (uav_parameters.py 47-73) as a state machine.  Values in thousandths.   *)

\* The parameters assigned to: ranges within 1 .. 100, min = max included,
\* at a percent left by an earlier assignment.
SetterParameters ==
    { [ LogScaledParameter(r[1], r[2]) EXCEPT !.percent = pct ] :
          r \in { q \in {1000, 2000, 10000, 100000} \X {1000, 2000, 10000, 100000} :
                      q[1] <= q[2] },
          pct \in {0, 50, 100} }

NewValues == {-1000, 0, 500, 1000, 1500, 2000, 5000, 10000, 100000, 200000}

NewPercents == {-1, 0, 25, 50, 100, 101}

ValueRejectedMutBelow(p, new_val) == new_val < p.min_val

\* not (self.min_val <= new_val <= self.max_val) (uav_parameters.py 50).
ValueRejected(p, new_val) == ~(p.min_val <= new_val /\ new_val <= p.max_val)

\* not (0 <= new_percent <= 100) (uav_parameters.py 71).
PercentRejected(new_percent) == ~(0 <= new_percent /\ new_percent <= 100)

SetterInit ==
    /\ scenario = "setter"
    /\ catalogs = Catalogs
    /\ search = None
    /\ \E p \in SetterParameters :
           \/ \E v \in NewValues :
                  args = [self |-> p, attribute |-> "value", new |-> v]
           \/ \E n \in NewPercents :
                  args = [self |-> p, attribute |-> "percent", new |-> n]
    /\ battery = None
    /\ aircraft = None
    /\ design = None
    /\ path = None
    /\ executed = <<>>
    /\ result = None
    /\ outcome = "pending"
    /\ pc = "CALL"

\* The value setter (uav_parameters.py 47-61): the range check, then the
\* percent from the logarithms; the division of line 61 raises
\* ZeroDivisionError for min = max.
SetValue ==
    /\ scenario \in {"setter", "round_trip"}
    /\ pc = "CALL" /\ args.attribute = "value"
    /\ LET p == args.self
       IN  IF ValueRejected(p, args.new) \/ p.min_val = p.max_val
           THEN outcome' = "raised" /\ args' = args
           ELSE /\ outcome' = "returned"
                /\ args' = [args EXCEPT !.self.percent =
                               MulDiv(100,
                                      Log10Max1(args.new) - Log10Max1(p.min_val),
                                      Log10Max1(p.max_val) - Log10Max1(p.min_val))]
    /\ pc' = "DONE"
    /\ UNCHANGED <<catalogs, search, scenario, battery, aircraft, design, path,
                   executed, result>>

\* The percent setter (uav_parameters.py 68-73).  The round trip goes on to
\* read value once the percent is stored.
SetPercent ==
    /\ scenario \in {"setter", "round_trip"}
    /\ pc = "CALL" /\ args.attribute = "percent"
    /\ IF PercentRejected(args.new)
       THEN outcome' = "raised" /\ args' = args /\ pc' = "DONE"
       ELSE /\ outcome' = "returned"
            /\ args' = [args EXCEPT !.self.percent = args.new]
            /\ pc' = IF scenario = "round_trip" THEN "READ" ELSE "DONE"
    /\ UNCHANGED <<catalogs, search, scenario, battery, aircraft, design, path,
                   executed, result>>

\* The ranges of the round trip: the logarithms of both ends and of their
\* geometric mean are knots of LogKnots, min = max included.
RoundTripRanges ==
    { q \in {1000, 4000, 16000} \X {1000, 4000, 16000} : q[1] <= q[2] }

\* A parameter as its constructor leaves it (uav_parameters.py 19-36), and
\* the percent about to be assigned to it; args.percent keeps that percent.
RoundTripInit ==
    /\ scenario = "round_trip"
    /\ catalogs = Catalogs
    /\ search = None
    /\ \E r \in RoundTripRanges, p \in {0, 50, 100} :
           args = [self |-> LogScaledParameter(r[1], r[2]),
                   attribute |-> "percent", new |-> p, percent |-> p]
    /\ battery = None
    /\ aircraft = None
    /\ design = None
    /\ path = None
    /\ executed = <<>>
    /\ result = None
    /\ outcome = "pending"
    /\ pc = "CALL"

\* The value getter (uav_parameters.py 38-45); the round trip assigns the
\* value it read back to value.
GetValue ==
    /\ scenario = "round_trip" /\ pc = "READ"
    /\ result' = Value(args.self)
    /\ args' = [args EXCEPT !.attribute = "value", !.new = Value(args.self)]
    /\ outcome' = "pending"
    /\ pc' = "CALL"
    /\ UNCHANGED <<catalogs, search, scenario, battery, aircraft, design, path,
                   executed>>

----------------------------------------------------------------------------
(* The staged-optimizer objectives (edf_uav_opt_test.py and                *)
(* gas_uav_opt_test.py).  Costs are in thousandths.                        *)

\* int(round(x)) for a float x given in halves: Python rounds a half to its
\* even neighbour.
IntRound(halves) ==
    IF halves % 2 = 0 THEN halves \div 2
    ELSE IF ((halves - 1) \div 2) % 2 = 0 THEN (halves - 1) \div 2
    ELSE (halves + 1) \div 2

\* num_engines_map and num_batteries_map (edf_uav_opt_test.py 46, 111); a
\* key outside the map raises KeyError.
NumMap == (0 :> 1) @@ (1 :> 2) @@ (2 :> 4)

\* The UAVVariant targets: weights in g, range in km, endurance in minutes,
\* thrust in mN.
TargetVariants ==
    { [Takeoff_Weight |-> 10000, Payload_Capacity |-> 2000, Range |-> 100,
       Endurance |-> 60, engine_thrust |-> 50000],
      [Takeoff_Weight |-> 25000, Payload_Capacity |-> 5000, Range |-> 200,
       Endurance |-> 120, engine_thrust |-> 0] }

\* The frames are only read: no objective and no search assigns to a frame,
\* a row or a field of a row.
FramesReadMutDropRow == catalogs' = [catalogs EXCEPT !.edf = Tail(@)]

FramesRead == catalogs' = catalogs

\* edf_fitness_function (edf_uav_opt_test.py 39-98): <<fitness,
\* score_details>>; KeyError (47) and IndexError (49) are caught at 94-98.
EdfFitnessFunction(optimization_params, target_variant, frames) ==
    LET edf_index == IntRound(optimization_params[1])
        key       == IntRound(optimization_params[2])
    IN  IF key \notin DOMAIN NumMap \/ IlocRaises(frames.edf, edf_index)
        THEN <<Inf, None>>
        ELSE
    LET num_engines      == NumMap[key]
        selected_edf     == Iloc(frames.edf, edf_index)
        total_thrust_mn  == Get(selected_edf, "Thrust (N)", 0) * num_engines
        total_power_w    == Get(selected_edf, "Power (W)", 0) * num_engines
        estimated_mtow_g == Get(selected_edf, "Estimated MTOW (kg)", 0) * num_engines
        target_g         == target_variant.Takeoff_Weight
        target_thrust_mn == MulDiv(target_g, 4905, 1000)
        thrust_diff      == MulDiv(Abs(total_thrust_mn - target_thrust_mn), 1000,
                                   target_thrust_mn)
        weight_diff      == MulDiv(Abs(estimated_mtow_g - target_g), 1000, target_g)
        twr              == IF estimated_mtow_g > 0
                            THEN MulDiv(total_thrust_mn, 1000,
                                        MulDiv(estimated_mtow_g, 981, 100))
                            ELSE 0
        twr_error        == 2 * Abs(twr - 500)
        power_penalty    == total_power_w \div 10
        fitness          == thrust_diff + weight_diff + twr_error + power_penalty
    IN  << fitness,
           [ edf_index |-> edf_index, num_engines |-> num_engines,
             total_thrust_n |-> total_thrust_mn, total_power_w |-> total_power_w,
             estimated_mtow_kg |-> estimated_mtow_g, fitness |-> fitness ] >>

\* calculate_flight_power_units (power_required.py 3-50) with
\* calculate_parasitic_drag_power (parasitic_drag.py 25-28), in mW: mass in
\* g, span in mm, area in cm^2, speed in mm/s, cd0 in 1/10000.
CalculateFlightPowerUnits(mass_g, wing_span_mm, wing_area_cm2, velocity_mmps, cd0_e4) ==
    LET lift_force_mn  == MulDiv(mass_g, 981, 100)
        aspect_milli   == MulDiv(MulDiv(wing_span_mm, wing_span_mm, 1000), 10000,
                                 wing_area_cm2)
        dynamic_mn     == MulDiv(MulDiv(MulDiv(velocity_mmps, velocity_mmps, 1000),
                                        6125, 10000),
                                 wing_area_cm2, 10000)
        induced_mn     == MulDiv(MulDiv(lift_force_mn, lift_force_mn, dynamic_mn),
                                 1000, MulDiv(aspect_milli, 314159, 100000))
        parasitic_mn   == MulDiv(dynamic_mn, cd0_e4, 10000)
    IN  MulDiv(induced_mn, velocity_mmps, 1000)
          + MulDiv(parasitic_mn, velocity_mmps, 1000)

\* The airframe of the variant class (edf_uav_opt_test.py 186-192, 198).
UavGeometry == [wing_span_m |-> 2000, wing_area_m2 |-> 4000, cd0 |-> 350]

\* The stage-1 result handed to stage 2 (edf_uav_opt_test.py 206-212): the
\* score details of the first fan, and 50 knots * 1.852 in m/h for the
\* column the frame does not have.
BestEdfConfig(target_variant, frames) ==
    [ edf_index |-> 0, num_engines |-> 1,
      estimated_mtow_kg |->
          EdfFitnessFunction(<<0, 0>>, target_variant, frames)[2].estimated_mtow_kg,
      estimated_cruise_speed_kmh |->
          MulDiv(Get(Iloc(frames.edf, 0), "Estimated Cruise Speed (knots)", 50000),
                 1852, 1000) ]

\* battery_fitness_function (edf_uav_opt_test.py 101-174).
BatteryFitnessFunction(optimization_params, best_edf_config, target_variant, uav_geometry, frames) ==
    LET battery_index == IntRound(optimization_params[1])
        key           == IntRound(optimization_params[2])
    IN  IF \/ key \notin DOMAIN NumMap
           \/ IlocRaises(frames.battery, battery_index)
           \/ IlocRaises(frames.edf, best_edf_config.edf_index)
        THEN <<Inf, None>>
        ELSE
    LET num_batteries    == NumMap[key]
        selected_battery == Iloc(frames.battery, battery_index)
        selected_edf     == Iloc(frames.edf, best_edf_config.edf_index)
        estimated_battery_weight_from_edf ==
            Get(selected_edf, "Estimated Battery Weight (kg)", 0)
                * best_edf_config.num_engines
        uav_weight_without_battery ==
            best_edf_config.estimated_mtow_kg - estimated_battery_weight_from_edf
        battery_weight_g == Get(selected_battery, "weight_g", 0) * num_batteries
        new_mtow         == uav_weight_without_battery + battery_weight_g
        cruise_speed_mmps == MulDiv(best_edf_config.estimated_cruise_speed_kmh,
                                    1000, 3600)
        power_required_mw ==
            CalculateFlightPowerUnits(new_mtow, uav_geometry.wing_span_m,
                                      uav_geometry.wing_area_m2,
                                      cruise_speed_mmps, uav_geometry.cd0)
        battery_capacity_mah == Get(selected_battery, "capacity_Ah", 0) * num_batteries
        battery_voltage  == Get(selected_battery, "nominalV", 0)
    IN  IF battery_voltage = 0 \/ power_required_mw = 0 THEN <<Inf, None>>
        ELSE
    LET battery_energy_mwh == MulDiv(battery_capacity_mah, battery_voltage, 1000)
        endurance_mh     == MulDiv(battery_energy_mwh, 1000, power_required_mw)
        range_m          == MulDiv(best_edf_config.estimated_cruise_speed_kmh,
                                   endurance_mh, 1000)
        target_range_m   == target_variant.Range * 1000
        target_g         == target_variant.Takeoff_Weight
        endurance_penalty == Max(0, 10000 - 60 * endurance_mh)
        range_score      == IF target_range_m > 0 /\ range_m < target_range_m
                            THEN MulDiv(target_range_m - range_m, 1000,
                                        target_range_m)
                            ELSE 0
        weight_score     == IF target_g > 0 /\ new_mtow > target_g
                            THEN MulDiv(new_mtow - target_g, 1000, target_g)
                            ELSE 0
        fitness          == endurance_penalty + range_score + weight_score
    IN  << fitness,
           [ battery_index |-> battery_index, num_batteries |-> num_batteries,
             range_km |-> range_m, endurance_h |-> endurance_mh,
             battery_weight_kg |-> battery_weight_g,
             power_required_w |-> power_required_mw, fitness |-> fitness ] >>

\* a / b * scale when b > 0 else float('inf') (gas_uav_opt_test.py 127-131).
RatioOrInf(a, b, scale) == IF b > 0 THEN MulDiv(a, scale, b) ELSE Inf

\* engine_fitness_function (gas_uav_opt_test.py 74-163): a sum with an
\* infinite term is infinite.
EngineFitnessFunction(optimization_params, target_variant, propeller_weight_g, frames) ==
    LET engine_index == IntRound(optimization_params[1])
    IN  IF IlocRaises(frames.engine, engine_index) THEN <<Inf, None>>
        ELSE
    LET selected_engine  == Iloc(frames.engine, engine_index)
        useful_load_g    == Get(selected_engine, "Estimated Useful Load (kg)", 0)
        max_fuel_g       == Get(selected_engine, "Estimated Max Fuel (kg)", 0)
        mtow_g           == Get(selected_engine, "Estimated MTOW (kg)", 0)
        engine_thrust_mn == Get(selected_engine, "Estimated Thrust (N)", 0)
        estimated_cruise_speed_mkts ==
            Get(selected_engine, "Estimated Cruise Speed (knots)", 0)
        payload_potential_g == useful_load_g - max_fuel_g
        total_uav_weight_g ==
            mtow_g - (payload_potential_g - target_variant.Payload_Capacity)
        target_thrust_mn == target_variant.engine_thrust
        target_g         == target_variant.Takeoff_Weight
        target_cruise_speed_mmps ==
            IF target_variant.Endurance > 0
            THEN MulDiv(target_variant.Range * 1000, 1000,
                        target_variant.Endurance * 60)
            ELSE 0
        estimated_cruise_speed_mmps ==
            MulDiv(estimated_cruise_speed_mkts, 514444, 1000000)
        thrust_diff  == RatioOrInf(Abs(engine_thrust_mn - target_thrust_mn),
                                   target_thrust_mn, 1000)
        weight_diff  == RatioOrInf(Abs(total_uav_weight_g - target_g), target_g, 1000)
        cruise_speed_error ==
            RatioOrInf(Abs(estimated_cruise_speed_mmps - target_cruise_speed_mmps),
                       target_cruise_speed_mmps, 1000)
        thrust_to_weight_ratio ==
            IF total_uav_weight_g > 0
            THEN MulDiv(engine_thrust_mn, 1000, MulDiv(total_uav_weight_g, 981, 100))
            ELSE 0
        twr_error    == IF thrust_to_weight_ratio < 250
                        THEN 16 * (250 - thrust_to_weight_ratio)
                        ELSE 4 * (thrust_to_weight_ratio - 250)
        fitness      == IF Inf \in {thrust_diff, weight_diff, cruise_speed_error}
                        THEN Inf
                        ELSE thrust_diff + weight_diff + twr_error
                                + cruise_speed_error
    IN  << fitness,
           [ engine_index |-> engine_index, thrust_diff |-> thrust_diff,
             weight_diff |-> weight_diff, twr_error |-> twr_error,
             engine_rpm |-> Get(selected_engine, "Speed (RPM)", 0),
             estimated_cruise_speed_mps |-> estimated_cruise_speed_mmps,
             cruise_speed_error |-> cruise_speed_error, fitness |-> fitness ] >>

\* The ValueError of calculate_performance (optimizer_utils.py 46-47).
PerformanceRaises(engine_rpm, diameter_in, pitch_in) ==
    engine_rpm <= 0 \/ diameter_in <= 0 \/ pitch_in <= 0

\* score_propeller with calculate_performance (optimizer_utils.py 32-159):
\* the overall score, for sizes that pass the test of line 46.
ScorePropeller(engine_rpm, diameter_in, pitch_in, number_of_blades, cruise_speed_mmps, target_thrust_mn, price_usd) ==
    LET prop_diameter_mm == MulDiv(diameter_in, 254, 10)
        prop_pitch_mm    == MulDiv(pitch_in, 254, 10)
        rpm_sec_milli    == MulDiv(engine_rpm, 1000, 60)
        turn_mmps        == MulDiv(rpm_sec_milli, prop_diameter_mm, 1000)
        advance_ratio    == MulDiv(cruise_speed_mmps, 1000, turn_mmps)
        thrust_coeff_e6  == Max(0, 120000 - 150 * advance_ratio)
        blade_factor     == 1000 + (number_of_blades - 2) * 200
        diameter_sq_e6   == prop_diameter_mm * prop_diameter_mm
        calculated_thrust_mn ==
            MulDiv(MulDiv(MulDiv(MulDiv(thrust_coeff_e6, 1225, 1000),
                                 MulDiv(rpm_sec_milli, rpm_sec_milli, 1000),
                                 1000000),
                          MulDiv(diameter_sq_e6, diameter_sq_e6, 1000000),
                          1000000),
                   blade_factor, 1000)
        mach_tip         == MulDiv(turn_mmps, 3141593, 1000000) \div 343
        air_speed_mmps   == MulDiv(rpm_sec_milli, prop_pitch_mm, 1000)
        thrust_penalty   == IF calculated_thrust_mn < target_thrust_mn
                            THEN MulDiv(target_thrust_mn - calculated_thrust_mn,
                                        5000, target_thrust_mn)
                            ELSE 0
        efficiency_penalty ==
            IF air_speed_mmps > cruise_speed_mmps /\ cruise_speed_mmps > 0
            THEN MulDiv(air_speed_mmps - cruise_speed_mmps, 250, cruise_speed_mmps)
            ELSE 0
        tip_speed_penalty == IF mach_tip >= 900 THEN 10 * (mach_tip - 900) ELSE 0
    IN  thrust_penalty + efficiency_penalty \div 2 + 2 * tip_speed_penalty
          + price_usd

\* propeller_fitness_function (gas_uav_opt_test.py 165-204).
PropellerFitnessFunction(optimization_params, engine_score_details, target_variant, frames) ==
    LET propeller_index == IntRound(optimization_params[1])
    IN  IF IlocRaises(frames.propeller, propeller_index) THEN <<Inf, None>>
        ELSE
    LET selected_propeller == Iloc(frames.propeller, propeller_index)
        overall_score ==
            ScorePropeller(engine_score_details.engine_rpm,
                           Get(selected_propeller, "Diameter (in)", 0),
                           Get(selected_propeller, "Pitch (in)", 0),
                           Get(selected_propeller, "Number of Blades", 0),
                           engine_score_details.estimated_cruise_speed_mps,
                           target_variant.engine_thrust,
                           Get(selected_propeller, "Price (USD)", 0))
    IN  IF PerformanceRaises(engine_score_details.engine_rpm,
                             Get(selected_propeller, "Diameter (in)", 0),
                             Get(selected_propeller, "Pitch (in)", 0))
        THEN <<Inf, None>>
        ELSE <<overall_score, [overall_score |-> overall_score]>>

\* The objective called, with the arguments the staged driver gives it
\* (edf_uav_opt_test.py 201-220, gas_uav_opt_test.py 401-431).
Objective(function, optimization_params, target_variant, frames) ==
    CASE function = "edf_fitness_function" ->
             EdfFitnessFunction(optimization_params, target_variant, frames)
      [] function = "battery_fitness_function" ->
             BatteryFitnessFunction(optimization_params,
                                    BestEdfConfig(target_variant, frames),
                                    target_variant, UavGeometry, frames)
      [] function = "engine_fitness_function" ->
             EngineFitnessFunction(optimization_params, target_variant, 100, frames)
      [] function = "propeller_fitness_function" ->
             PropellerFitnessFunction(
                 optimization_params,
                 EngineFitnessFunction(<<0>>, target_variant, 100, frames)[2],
                 target_variant, frames)

\* The frame an objective indexes with its first parameter.
ObjectiveFrame(function, frames) ==
    CASE function = "edf_fitness_function" -> frames.edf
      [] function = "battery_fitness_function" -> frames.battery
      [] function = "engine_fitness_function" -> frames.engine
      [] function = "propeller_fitness_function" -> frames.propeller

\* The parameter vectors tried, in halves: the index from -5.0 to 5.0, the
\* multiplicity key 0, 0.5, 2 and 3.
ObjectiveInit ==
    /\ scenario = "objective"
    /\ catalogs = Catalogs
    /\ search = None
    /\ \E f \in { "edf_fitness_function", "battery_fitness_function",
                  "engine_fitness_function", "propeller_fitness_function" },
          h \in -10 .. 10, k \in {0, 1, 4, 6}, t \in TargetVariants :
           args = [function |-> f, optimization_params |-> <<h, k>>,
                   target_variant |-> t]
    /\ battery = None
    /\ aircraft = None
    /\ design = None
    /\ path = None
    /\ executed = <<>>
    /\ result = None
    /\ outcome = "pending"
    /\ pc = "CALL"

\* One call of an objective: every exception of its body is caught and
\* answered with float('inf'), so the call returns.
ObjectiveCall ==
    /\ scenario = "objective" /\ pc = "CALL"
    /\ result' = Objective(args.function, args.optimization_params,
                           args.target_variant, catalogs)
    /\ outcome' = "returned"
    /\ pc' = "DONE"
    /\ FramesRead
    /\ UNCHANGED <<search, scenario, args, battery, aircraft, design, path, executed>>

----------------------------------------------------------------------------
(* The staged search find_best_edf / find_best_real_battery                *)
(* (edf_opt.py 29-96) as a state machine.  Each candidate that is built    *)
(* flies the mission of calculate_fitness.                                 *)

\* EDF(...) from a row of the EDF frame (edf_opt.py 41-47).
EdfFromRow(edf_row) ==
    EDF(Get(edf_row, "Power (W)", 0), Get(edf_row, "Thrust (N)", 0),
        Get(edf_row, "Weight_g", 0), Get(edf_row, "Diameter (mm)", 0))

\* Battery.from_df_row (lipo.py 39-49): the constructor on the columns of
\* the row, without any test of their values.
FromDfRow(row, num_batteries) ==
    Battery(Get(row, "weight_g", 0), Get(row, "c_rating", 40),
            Get(row, "energy_Wh", 0), Get(row, "nominalV", 0), num_batteries)

\* The virtual battery of stage 1 (edf_opt.py 37, 50; edf_config.py 89-90):
\* 2.5 times the fan's weight at 50 C; None for the ValueError of lipo.py 33.
VirtualBattery(edf) == FromCAndWeight(50, MulDiv(edf.weight_g, 250, 100), 6, 1)

\* Aircraft.__init__ line 76 divides by edf.power_w: ZeroDivisionError for
\* a fan rated at 0 W.
DeriveRaises(edf) == edf.power_w = 0

\* The weight test of stage 2 (edf_opt.py 73, 80) never refusing a pack.
TooHeavyMutNever(real_battery, virtual_battery) == FALSE

\* real_battery.weight_kg > max_battery_weight, with max_battery_weight =
\* virtual_battery.weight_kg * 2 (edf_opt.py 73, 80).
TooHeavy(real_battery, virtual_battery) ==
    real_battery.weight_g > virtual_battery.weight_g * 2

\* range(1, 11) (edf_opt.py 76).
MaxNumBatteries == 10

\* An EDF frame with one row rated at 0 W that has a weight.
UnratedEdfSummary ==
    << ("Model ID" :> "E0") @@ ("Power (W)" :> 0) @@ ("Thrust (N)" :> 5000)
          @@ ("Weight_g" :> 50) @@ ("battery_weight_kg" :> 0)
          @@ ("mtow_kg" :> 0) >> \o EdfSummary

\* A battery frame of one light pack: ten of them stay under the weight
\* limit of the 8 kW fan and only ten of them pass its power check.
LightBatterySummary ==
    << ("Model Number" :> "B1000") @@ ("weight_g" :> 100)
          @@ ("capacity_Ah" :> 1000) @@ ("energy_Wh" :> 25)
          @@ ("nominalV" :> 22200) >>

\* The frames the searches run on: as loaded, with the unrated row before
\* or after the rated ones, with the light pack only, and without any row.
SearchCatalogs ==
    { Catalogs,
      [Catalogs EXCEPT !.edf = UnratedEdfSummary],
      [Catalogs EXCEPT !.edf = Tail(UnratedEdfSummary)
                                   \o <<Head(UnratedEdfSummary)>>],
      [Catalogs EXCEPT !.battery = LightBatterySummary],
      [Catalogs EXCEPT !.edf = <<>>, !.battery = <<>>] }

SearchScenarios == {"find_best_edf", "find_best_real_battery"}

\* The locals of both loops at entry (edf_opt.py 33-34, 70-71).
SearchLocals ==
    [ candidate |-> 1, num_batteries |-> 1, best_fitness |-> -1,
      best_config |-> None ]

FindBestEdfInit ==
    /\ scenario = "find_best_edf"
    /\ catalogs \in SearchCatalogs
    /\ search = SearchLocals
    /\ \E t \in FitnessTargets : args = [target_params |-> t]
    /\ battery = None
    /\ aircraft = None
    /\ design = None
    /\ path = None
    /\ executed = <<>>
    /\ result = None
    /\ outcome = "pending"
    /\ pc = "CANDIDATE"

\* Stage 2 is entered with the fan and the virtual battery stage 1 chose.
FindBestRealBatteryInit ==
    /\ scenario = "find_best_real_battery"
    /\ catalogs \in { c \in SearchCatalogs : c.edf \in {EdfSummary, <<>>} }
    /\ search = SearchLocals
    /\ \E t \in FitnessTargets, i \in 1 .. Len(EdfSummary) :
           args = [ target_params |-> t, best_edf |-> EdfFromRow(EdfSummary[i]),
                    virtual_battery |-> VirtualBattery(EdfFromRow(EdfSummary[i])) ]
    /\ battery = None
    /\ aircraft = None
    /\ design = None
    /\ path = None
    /\ executed = <<>>
    /\ result = None
    /\ outcome = "pending"
    /\ pc = "CANDIDATE"

\* The candidate becomes the aircraft whose mission calculate_fitness flies
\* (edf_opt.py 52, 85; edf_fitness.py 20).
FlyCandidate(edf, bat) ==
    /\ aircraft' = BuiltAircraft(edf, bat, args.target_params)
    /\ battery' = bat
    /\ path' = FlightPath
    /\ executed' = <<>>
    /\ pc' = "TAKEOFF"
    /\ UNCHANGED <<search, outcome, result>>

\* The except clause of stage 2 leaving the row, as break does.
ContinueMutNextRow ==
    /\ search' = [search EXCEPT !.candidate = @ + 1, !.num_batteries = 1]
    /\ pc' = "CANDIDATE"

\* The except clause of the loops (edf_opt.py 61-62, 93-94): continue.
Continue ==
    /\ search' = IF scenario = "find_best_edf"
                    \/ search.num_batteries = MaxNumBatteries
                 THEN [search EXCEPT !.candidate = @ + 1, !.num_batteries = 1]
                 ELSE [search EXCEPT !.num_batteries = @ + 1]
    /\ pc' = "CANDIDATE"

\* The loops are over: return best_edf_config / best_real_config
\* (edf_opt.py 64, 96).
SearchReturn ==
    /\ scenario \in SearchScenarios /\ pc = "CANDIDATE"
    /\ search.candidate > Len(IF scenario = "find_best_edf"
                              THEN catalogs.edf ELSE catalogs.battery)
    /\ result' = search.best_config
    /\ outcome' = "returned"
    /\ pc' = "DONE"
    /\ FramesRead
    /\ UNCHANGED <<search, scenario, args, battery, aircraft, design, path,
                   executed>>

\* One pass of the loop of find_best_edf up to the call of calculate_fitness
\* (edf_opt.py 39-52): the ValueError of the virtual battery or of the power
\* check is caught at line 61, the ZeroDivisionError of Aircraft.__init__ is
\* not and leaves the search.
FindBestEdfCandidate ==
    /\ scenario = "find_best_edf" /\ pc = "CANDIDATE"
    /\ search.candidate <= Len(catalogs.edf)
    /\ LET edf == EdfFromRow(catalogs.edf[search.candidate])
           virtual_battery == VirtualBattery(edf)
       IN  IF virtual_battery = None
           THEN Continue /\ UNCHANGED <<battery, aircraft, path, executed,
                                        outcome, result>>
           ELSE IF CannotSupply(virtual_battery, edf.power_w)
           THEN Continue /\ UNCHANGED <<battery, aircraft, path, executed,
                                        outcome, result>>
           ELSE IF DeriveRaises(edf)
           THEN /\ outcome' = "raised"
                /\ pc' = "DONE"
                /\ UNCHANGED <<search, battery, aircraft, path, executed, result>>
           ELSE FlyCandidate(edf, virtual_battery)
    /\ FramesRead
    /\ UNCHANGED <<scenario, args, design>>

\* One pass of the inner loop of find_best_real_battery up to the call of
\* calculate_fitness (edf_opt.py 75-85): break on a pack over the weight
\* limit, continue on the ValueError of the power check.
FindBestRealBatteryCandidate ==
    /\ scenario = "find_best_real_battery" /\ pc = "CANDIDATE"
    /\ search.candidate <= Len(catalogs.battery)
    /\ LET real_battery == FromDfRow(catalogs.battery[search.candidate],
                                     search.num_batteries)
       IN  IF TooHeavy(real_battery, args.virtual_battery)
           THEN /\ search' = [search EXCEPT !.candidate = @ + 1,
                                            !.num_batteries = 1]
                /\ UNCHANGED <<battery, aircraft, path, executed, outcome,
                               result, pc>>
           ELSE IF CannotSupply(real_battery, args.best_edf.power_w)
           THEN Continue /\ UNCHANGED <<battery, aircraft, path, executed,
                                        outcome, result>>
           ELSE IF DeriveRaises(args.best_edf)
           THEN /\ outcome' = "raised"
                /\ pc' = "DONE"
                /\ UNCHANGED <<search, battery, aircraft, path, executed, result>>
           ELSE FlyCandidate(args.best_edf, real_battery)
    /\ FramesRead
    /\ UNCHANGED <<scenario, args, design>>

\* The rest of the pass, after the mission of calculate_fitness has
\* returned (edf_fitness.py 23-35; edf_opt.py 54-60, 87-92): the candidate
\* replaces the best one if its score is greater.
SearchScore ==
    /\ scenario \in SearchScenarios /\ pc = "SCORE"
    /\ LET fitness_result ==
               Only({ Fitness(OverallScore(scores), scores) :
                      scores \in {ParameterScores(args.target_params, aircraft,
                                                  path)} })
           advanced ==
               IF scenario = "find_best_edf"
                  \/ search.num_batteries = MaxNumBatteries
               THEN [search EXCEPT !.candidate = @ + 1, !.num_batteries = 1]
               ELSE [search EXCEPT !.num_batteries = @ + 1]
       IN  search' =
               IF fitness_result.fitness_score > search.best_fitness
               THEN [advanced EXCEPT
                         !.best_fitness = fitness_result.fitness_score,
                         !.best_config =
                             IF scenario = "find_best_edf"
                             THEN [ edf |-> aircraft.edf,
                                    virtual_battery |-> aircraft.battery,
                                    fitness |-> fitness_result ]
                             ELSE [ aircraft |-> aircraft,
                                    fitness |-> fitness_result ]]
               ELSE advanced
    /\ pc' = "CANDIDATE"
    /\ FramesRead
    /\ UNCHANGED <<scenario, args, battery, aircraft, design, path, executed,
                   result, outcome>>

----------------------------------------------------------------------------
(* FuelFlightProfileCalculator.calculate_profile                           *)
(* (flight_profiles/fuel_flight_profile.py 9-125).                         *)

\* get_air_density (flight_profile_calculator.py 44-80) in mg/m^3, at
\* altitudes from 0 ft: the ISA troposphere, constant from 11000 m.
GetAirDensity(altitude_feet) ==
    Interp(<< 0, 1000, 5000, 10000, 20000, 30000, 36089 >>,
           << 1224978, 1189533, 1055531, 904627, 652691, 458314, 363924 >>,
           altitude_feet)

\* calculate_takeoff_airspeed (flight_profile_calculator.py 83-113) in
\* mm/s, Inf for float('inf'): mass in g, area in cm^2, Cl in thousandths.
CalculateTakeoffAirspeed(mtow_g, wing_area_cm2, cl_max_takeoff, air_density_mg) ==
    IF air_density_mg <= 0 \/ wing_area_cm2 <= 0 \/ cl_max_takeoff <= 0 THEN Inf
    ELSE LET weight_mn == MulDiv(mtow_g, 980665, 100000)
             lift_area_milli ==
                 MulDiv(MulDiv(air_density_mg, wing_area_cm2, 10000),
                        cl_max_takeoff, 1000000)
         IN  ISqrt(1000 * MulDiv(2 * weight_mn, 1000, lift_area_milli))

\* calculate_drag_at_cruise (flight_profile_calculator.py 116-141) in mN,
\* for a speed and a Cd that are not negative: speed in mm/s, Cd in 1/10000.
CalculateDragAtCruise(cruise_speed_mmps, air_density_mg, wing_area_cm2, cd_cruise) ==
    MulDiv(MulDiv(MulDiv(MulDiv(cruise_speed_mmps, cruise_speed_mmps, 1000),
                         air_density_mg, 2000000),
                  wing_area_cm2, 10000),
           cd_cruise, 10000)

\* The endurance taken for minutes without the factor 60.
EnduranceMinutesMutHours(fuel_onboard_g, fuel_rate_g_per_hr) ==
    MulDiv(fuel_onboard_g, 1000, fuel_rate_g_per_hr)

\* endurance_hours * 60.0 (fuel_flight_profile.py 111, 118) in thousandths
\* of a minute, for a positive rate.
EnduranceMinutes(fuel_onboard_g, fuel_rate_g_per_hr) ==
    MulDiv(fuel_onboard_g, 60000, fuel_rate_g_per_hr)

\* calculate_profile (fuel_flight_profile.py 43-125): <<endurance in
\* thousandths of a minute, distance in thousandths of a nautical mile,
\* rotation speed in milliknots, how_terminated>>.  Power in mHP, fuel in g
\* and g/h, speed in milliknots.
CalculateProfile(mtow_g, powerplant_details, cruise_speed, cruise_altitude, wing_profile, wing_area_cm2) ==
    LET fuel_onboard_g    == Get(powerplant_details, "fuel_onboard_kg", 0)
        fuel_rate_g_per_hr ==
            Get(powerplant_details, "fuel_consumption_kg_per_hr", 0)
        engine_mhp        == Get(powerplant_details, "engine_hp", 0)
        cruise_speed_mmps == MulDiv(cruise_speed, 514444, 1000000)
        max_cl            == Get(wing_profile, "High Lift - Max Cl (approx)", 0)
        cruise_cd         == Get(wing_profile, "Cruise Cd", 0)
        takeoff_airspeed_mmps ==
            CalculateTakeoffAirspeed(mtow_g, wing_area_cm2, max_cl,
                                     GetAirDensity(0))
        rotation_speed_knots == MulDiv(takeoff_airspeed_mmps, 1000000, 514444)
    IN  IF max_cl <= 0 \/ wing_area_cm2 <= 0 \/ mtow_g <= 0
        THEN <<0, 0, 0, "FAIL_TAKEOFF">>
        ELSE
    LET drag_force_mn == CalculateDragAtCruise(cruise_speed_mmps,
                                               GetAirDensity(cruise_altitude),
                                               wing_area_cm2, cruise_cd)
        power_required_mw == MulDiv(drag_force_mn, cruise_speed_mmps, 1000)
        available_engine_power_mw == MulDiv(engine_mhp, 7457 * 8, 100)
    IN  IF available_engine_power_mw <= power_required_mw
        THEN <<0, 0, rotation_speed_knots, "FAIL_CLIMB">>
        ELSE IF fuel_rate_g_per_hr <= 0
        THEN <<0, 0, rotation_speed_knots, "UNKNOWN_FUEL_CONSUMPTION">>
        ELSE
    LET endurance_minutes == EnduranceMinutes(fuel_onboard_g, fuel_rate_g_per_hr)
        distance_nm       == MulDiv(cruise_speed, fuel_onboard_g,
                                    fuel_rate_g_per_hr)
    IN  << endurance_minutes, distance_nm, rotation_speed_knots,
           IF endurance_minutes <= 0 THEN "FAIL_CLIMB" ELSE "FUEL_EXHAUSTION" >>

\* The powerplants flown: a 5 HP and a 0.01 HP engine, with fuel on board,
\* without fuel and with a negative fuel figure, with the consumption rate
\* given, given as 0 and left out.
PowerplantDetails ==
    { ("engine_hp" :> hp) @@ ("fuel_onboard_kg" :> fuel) @@ rate :
        hp \in {10, 5000}, fuel \in {-2000, 0, 2000},
        rate \in { <<>>, "fuel_consumption_kg_per_hr" :> 0,
                   "fuel_consumption_kg_per_hr" :> 1000 } }

\* The wing profiles flown: with and without a maximum lift coefficient.
WingProfiles ==
    { ("Cruise Cd" :> 300) @@ ("High Lift - Max Cl (approx)" :> 1400),
      "Cruise Cd" :> 300 }

ProfileInit ==
    /\ scenario = "calculate_profile"
    /\ catalogs = Catalogs
    /\ search = None
    /\ \E mtow \in {0, 10000}, p \in PowerplantDetails,
          altitude \in {0, 1000, 40000}, w \in WingProfiles,
          area \in {0, 8000} :
           args = [ mtow |-> mtow, powerplant_details |-> p,
                    cruise_speed |-> 50000, cruise_altitude |-> altitude,
                    wing_profile |-> w, wing_area_sq_m |-> area ]
    /\ battery = None
    /\ aircraft = None
    /\ design = None
    /\ path = None
    /\ executed = <<>>
    /\ result = None
    /\ outcome = "pending"
    /\ pc = "CALL"

\* The call: every path of the function ends in a return statement.  It is
\* made twice with the same arguments (test_flight_profile.py 111, 136);
\* executed keeps what the first call returned.
ProfileCall ==
    /\ scenario = "calculate_profile" /\ pc \in {"CALL", "AGAIN"}
    /\ result' = CalculateProfile(args.mtow, args.powerplant_details,
                                  args.cruise_speed, args.cruise_altitude,
                                  args.wing_profile, args.wing_area_sq_m)
    /\ executed' = IF pc = "AGAIN" THEN Append(executed, result) ELSE executed
    /\ outcome' = "returned"
    /\ pc' = IF pc = "CALL" THEN "AGAIN" ELSE "DONE"
    /\ UNCHANGED <<catalogs, search, scenario, args, battery, aircraft, design,
                   path>>

----------------------------------------------------------------------------
(* The three ways of constructing a Battery (lipo.py 8-49).                *)

BatteryInit ==
    /\ scenario = "battery"
    /\ catalogs = Catalogs
    /\ search = None
    /\ \E constructor \in {"__init__", "from_c_and_weight", "from_df_row"},
          w \in {-1000, 0, 700}, c \in {-5, 0, 30} :
           args = [constructor |-> constructor, weight_g |-> w, c_rating |-> c]
    /\ battery = None
    /\ aircraft = None
    /\ design = None
    /\ path = None
    /\ executed = <<>>
    /\ result = None
    /\ outcome = "pending"
    /\ pc = "CALL"

\* Battery(...), Battery.from_c_and_weight(...) or Battery.from_df_row(...):
\* only from_c_and_weight tests its arguments (lipo.py 33).
BatteryConstruct ==
    /\ scenario = "battery" /\ pc = "CALL"
    /\ LET built ==
               CASE args.constructor = "__init__" ->
                        Battery(args.weight_g, args.c_rating, 100, 22200, 1)
                 [] args.constructor = "from_c_and_weight" ->
                        FromCAndWeight(args.c_rating, args.weight_g, 6, 1)
                 [] args.constructor = "from_df_row" ->
                        FromDfRow(("weight_g" :> args.weight_g)
                                      @@ ("c_rating" :> args.c_rating)
                                      @@ ("energy_Wh" :> 100)
                                      @@ ("nominalV" :> 22200), 1)
       IN  /\ battery' = built
           /\ outcome' = IF built = None THEN "raised" ELSE "returned"
    /\ pc' = "DONE"
    /\ UNCHANGED <<catalogs, search, scenario, args, aircraft, design, path,
                   executed, result>>

----------------------------------------------------------------------------
(* The program: one entry point per behaviour.                             *)

Init ==
    \/ MissionInit
    \/ CheckInit
    \/ ConstructInit
    \/ DesignInit
    \/ ScoreInit
    \/ FitnessInit
    \/ SetterInit
    \/ ObjectiveInit
    \/ FindBestEdfInit
    \/ FindBestRealBatteryInit
    \/ ProfileInit
    \/ BatteryInit
    \/ RoundTripInit

Next ==
    \/ Takeoff
    \/ ClimbStep
    \/ ClimbExit
    \/ Cruise
    \/ Descent
    \/ CheckPowerOutput
    \/ WithVirtualBattery
    \/ AircraftInitStore
    \/ AircraftInitCheck
    \/ AircraftInitDerive
    \/ DesignSetup
    \/ DesignIteration
    \/ DesignReturnLast
    \/ ScoreCall
    \/ FitnessScore
    \/ SetValue
    \/ SetPercent
    \/ ObjectiveCall
    \/ SearchReturn
    \/ FindBestEdfCandidate
    \/ FindBestRealBatteryCandidate
    \/ SearchScore
    \/ ProfileCall
    \/ BatteryConstruct
    \/ GetValue

Spec == Init /\ [][Next]_vars

\* The interpreter keeps running the climb loop of a mission it has entered:
\* the loop's next pass, or its exit, is taken.
FairSpec == Spec /\ WF_vars(ClimbStep \/ ClimbExit)

----------------------------------------------------------------------------
(* Properties of run_mission_simulation.                                   *)

\* The aircraft flown takes off: calculate_takeoff_distance finds a
\* positive net force.
TakesOff == scenario = "mission" /\ NetForce(aircraft) > 0

\* The mission of an aircraft that takes off has returned.
Landed == TakesOff /\ pc = "DONE"

\* k: the number of climb steps recorded so far.
ClimbCount == Cardinality({ i \in 1..Len(executed) : executed[i] = "CLIMB" })

Count(phase) == Cardinality({ i \in 1..Len(executed) : executed[i] = phase })

PhaseRank(phase) ==
    CASE phase = "TAKEOFF" -> 1
      [] phase = "CLIMB"   -> 2
      [] phase = "CRUISE"  -> 3
      [] phase = "DESCENT" -> 4

\* C1: for every aircraft that takes off, the phases run in the order
\* TAKEOFF, CLIMB, CRUISE, DESCENT, DONE and only CLIMB may contribute
\* nothing: when the mission is done TAKEOFF, CRUISE and DESCENT have each
\* run exactly once.
C1_PhasesNeverSkipped ==
    /\ TakesOff =>
           \A i, j \in 1..Len(executed) :
               i < j => /\ PhaseRank(executed[i]) <= PhaseRank(executed[j])
                        /\ executed[i] = executed[j] => executed[i] = "CLIMB"
    /\ Landed =>
           Count("TAKEOFF") = 1 /\ Count("CRUISE") = 1 /\ Count("DESCENT") = 1

\* C2: the path returned for a mission that takes off holds the initial
\* sample, one TAKEOFF sample, k CLIMB samples, one CRUISE sample and one
\* DESCENT sample: k + 4 samples, k the number of 250 ft steps climbed.
C2_SampleCount ==
    Landed =>
        /\ SeqMax(path.alt_ft) = 1 + 250 * ClimbCount
        /\ Len(path.time_ms) = ClimbCount + 4
        /\ Len(path.dist_cm) = ClimbCount + 4
        /\ Len(path.alt_ft) = ClimbCount + 4
        /\ Len(path.ias_mkts) = ClimbCount + 4
        /\ Len(path.battery_mpct) = ClimbCount + 4

\* C3: when the net accelerating force is not positive the mission does
\* not raise and runs no phase: the path keeps its initial sample alone
\* (time 0, distance 0, battery 100 %) and its five summary fields stay 0.
C3_NoTakeoffReturnsInitialPath ==
    (scenario = "mission" /\ NetForce(aircraft) <= 0) =>
        /\ pc \in {"TAKEOFF", "DONE"}
        /\ outcome # "raised"
        /\ pc = "DONE" => outcome = "returned"
        /\ executed = <<>>
        /\ path.time_ms = <<0>> /\ path.dist_cm = <<0>>
        /\ path.battery_mpct = <<100000>>
        /\ Len(path.alt_ft) = 1 /\ Len(path.ias_mkts) = 1
        /\ path.total_time_ms = 0 /\ path.total_distance_cm = 0
        /\ path.max_altitude_ft = 0
        /\ path.climb_rate_mfpm = 0 /\ path.cruise_power_mpct = 0

\* A mission that could not take off has returned.
C3_Witness ==
    /\ scenario = "mission" /\ NetForce(aircraft) <= 0
    /\ pc = "DONE" /\ outcome = "returned"

NonDecreasing(seq) == \A i \in 1..(Len(seq) - 1) : seq[i] <= seq[i + 1]

NonIncreasing(seq) == \A i \in 1..(Len(seq) - 1) : seq[i] >= seq[i + 1]

C5_ReserveFloor ==
    Landed =>
        /\ Last(path.battery_mpct) >= 10000
        /\ \A i \in 1..Len(path.battery_mpct) :
               path.battery_mpct[i] >= 10000 /\ path.battery_mpct[i] <= 100000

\* C6: the climb loop terminates.  It records a step only while the
\* battery is above 75 %, the altitude below 45000 ft and the excess power
\* positive, and leaves as soon as one of the three fails; each step adds
\* exactly 250 ft to the 1 ft it started from, so there are at most 180.
C6_ClimbTerminates ==
    /\ [](scenario = "mission" =>
              /\ ClimbCount <= 180
              /\ pc = "CLIMB" => Last(path.alt_ft) = 1 + 250 * ClimbCount)
    /\ [][(scenario = "mission" /\ pc = "CLIMB") =>
              IF \/ Last(path.battery_mpct) <= 75000
                 \/ Last(path.alt_ft) >= 45000
                 \/ ClimbQuantities(aircraft, path).excess_power_mw <= 0
              THEN path' = path /\ pc' = "CRUISE"
              ELSE /\ pc' = "CLIMB"
                   /\ Len(path'.alt_ft) = Len(path.alt_ft) + 1
                   /\ Last(path'.alt_ft) = Last(path.alt_ft) + 250]_vars
    /\ (scenario = "mission" /\ pc = "CLIMB") ~> (pc = "CRUISE")

\* The loop was left at the ceiling, after 180 steps.
C6_Witness ==
    scenario = "mission" /\ pc = "CRUISE" /\ ClimbCount = 180

----------------------------------------------------------------------------
(* Properties of the power check and of the construction of an Aircraft.   *)

\* C7: check_power_output raises exactly when max_power_w is below 1.2
\* times the required power; otherwise, equality included, it returns; and
\* it leaves the battery as it was.
C7_CheckPowerOutput ==
    scenario = "check_power_output" =>
        /\ battery = args.self
        /\ pc = "DONE" =>
               /\ outcome = "raised" <=>
                      10 * args.self.max_power_w < 12 * args.required_power_w
               /\ outcome = "returned" <=>
                      10 * args.self.max_power_w >= 12 * args.required_power_w

\* The check returned for a pack of exactly 1.2 times the required power.
C7_Witness ==
    /\ scenario = "check_power_output" /\ pc = "DONE"
    /\ outcome = "returned"
    /\ args.required_power_w > 0
    /\ 10 * battery.max_power_w = 12 * args.required_power_w

\* The battery cannot sustain 1.2 times the rated power of the EDF.
Underpowered(a) == 10 * a.battery.max_power_w < 12 * a.edf.power_w

\* C8: constructing an Aircraft raises whenever the battery is below 1.2
\* times the rated power of the EDF, before anything is derived; no
\* Aircraft with such a battery is returned by Aircraft(...), by
\* with_virtual_battery or by design_from_mission.
C8_NoUnderpoweredAircraft ==
    /\ (scenario = "construct" /\ aircraft # None /\ Underpowered(aircraft)) =>
           /\ ~Derived(aircraft)
           /\ pc \in {"CHECK", "DONE"}
           /\ outcome # "returned"
           /\ pc = "DONE" => outcome = "raised"
    /\ (scenario = "construct" /\ outcome = "returned") =>
           aircraft # None /\ Derived(aircraft) /\ ~Underpowered(aircraft)
    /\ (scenario = "design_from_mission" /\ outcome = "returned") =>
           Derived(aircraft) /\ ~Underpowered(aircraft)

\* with_virtual_battery raised on the power check of the constructor.
C8_Witness ==
    /\ scenario = "construct" /\ args.entry = "with_virtual_battery"
    /\ pc = "DONE" /\ outcome = "raised"
    /\ aircraft # None /\ Underpowered(aircraft) /\ ~Derived(aircraft)

\* The MTOW of the returned aircraft is within 1 % of the guess that sized
\* its propulsor.
WithinOnePercent ==
    100 * Abs(aircraft.mtow_g - design.mtow_guess_g) < design.mtow_guess_g

----------------------------------------------------------------------------
(* Properties of LogScaledParameter.score.                                 *)

\* C10: for min < max, score(center) = 1, score(min) = score(max) = 0, and
\* the score strictly decreases as the value moves away from the centre:
\* a value farther from the centre, on the same side, scores strictly
\* less, also when it lies outside [min, max].
C10_ScoreShape ==
    (scenario = "score" /\ pc = "DONE" /\ args.self.min_val < args.self.max_val) =>
        LET p        == args.self
            a        == args.actual_value_h
            center_h == p.min_val + p.max_val
        IN  /\ a = center_h => Same(result, <<1, 1>>)
            /\ (a = 2 * p.min_val \/ a = 2 * p.max_val) => Same(result, <<0, 1>>)
            /\ \A b \in ActualValues :
                   ( /\ (a <= center_h /\ b <= center_h)
                        \/ (a >= center_h /\ b >= center_h)
                     /\ Abs(a - center_h) < Abs(b - center_h) )
                   => Less(Score(p, b), result)

\* C11: for an actual value outside [min, max], score returns, and the
\* score is below 1, never negative, and no larger than the score of any
\* value that lies less far outside on the same side.
C11_ScoreOutside ==
    (/\ scenario = "score" /\ pc = "DONE"
     /\ \/ args.actual_value_h < 2 * args.self.min_val
        \/ args.actual_value_h > 2 * args.self.max_val) =>
        LET p == args.self
            a == args.actual_value_h
        IN  /\ outcome = "returned"
            /\ Less(result, <<1, 1>>)
            /\ result[1] >= 0
            /\ \A b \in ActualValues :
                   ( \/ a < b /\ b < 2 * p.min_val
                     \/ 2 * p.max_val < b /\ b < a )
                   => ~Less(Score(p, b), result)

\* C12: fitness returns the geometric mean of exactly five scores, those of
\* takeoff_weight, cruise_speed, endurance, payload_capacity and wingspan:
\* the overall score is the fifth root of their product, and it is 0
\* whenever one of the five is 0.
C12_GeometricMean ==
    (scenario = "fitness" /\ pc = "DONE") =>
        LET s == result.parameter_scores
            g == result.fitness_score
            product == s.takeoff_weight * s.cruise_speed * s.endurance
                           * s.payload_capacity * s.wingspan
        IN  /\ outcome = "returned"
            /\ DOMAIN s = {"takeoff_weight", "cruise_speed", "endurance",
                           "payload_capacity", "wingspan"}
            /\ s = ParameterScores(args.params, aircraft, path)
            /\ g * g * g * g * g <= product
            /\ product < (g + 1) * (g + 1) * (g + 1) * (g + 1) * (g + 1)
            /\ (\E n \in DOMAIN s : s[n] = 0) => g = 0

\* A flown aircraft whose payload sits on the edge of its target range:
\* that score alone is 0, and so is the fitness.
C12_Witness ==
    /\ scenario = "fitness" /\ pc = "DONE"
    /\ Len(path.time_ms) > 1
    /\ result.parameter_scores.payload_capacity = 0
    /\ \A n \in DOMAIN result.parameter_scores \ {"payload_capacity"} :
           result.parameter_scores[n] > 0
    /\ result.fitness_score = 0

\* C13: assigning value with a number outside [min_val, max_val], or
\* percent with a number outside [0, 100], raises and leaves the parameter,
\* its stored percent included, as it was.
C13_RejectedAssignment ==
    [][(/\ scenario = "setter" /\ pc = "CALL"
        /\ \/ /\ args.attribute = "value"
              /\ args.new < args.self.min_val \/ args.new > args.self.max_val
           \/ /\ args.attribute = "percent"
              /\ args.new < 0 \/ args.new > 100)
       => (outcome' = "raised" /\ args'.self = args.self)]_vars

\* A value above max_val was assigned, and the assignment raised.
C13_Witness ==
    /\ scenario = "setter" /\ pc = "DONE" /\ outcome = "raised"
    /\ args.attribute = "value" /\ args.new > args.self.max_val
    /\ args.self.percent # 100

----------------------------------------------------------------------------
(* Properties of the staged-optimizer objectives.                          *)

\* The rounded catalog index of the objective call.
ObjectiveIndex == IntRound(args.optimization_params[1])

\* C14: an objective called with a rounded catalog index outside 0..N-1,
\* above the last row or below zero, returns a cost of +infinity and does
\* not raise.
C14_OutOfRangeIsInfinite ==
    (/\ scenario = "objective" /\ pc = "DONE"
     /\ ObjectiveIndex \notin 0 .. Len(ObjectiveFrame(args.function, catalogs)) - 1) =>
        /\ outcome = "returned"
        /\ result[1] = Inf

----------------------------------------------------------------------------
(* Properties of the staged search.                                        *)

\* C15: no call of an objective or of a search function, whether it
\* succeeds, returns +infinity or skips a candidate, changes a row or a
\* field of the EDF, battery, engine or propeller catalogs.
C15_CatalogsUnchanged == [][catalogs' = catalogs]_vars

\* A search that skipped a candidate on its ValueError has returned a
\* configuration, over the catalogs as loaded.
C15_Witness ==
    /\ catalogs = Catalogs
    /\ scenario = "find_best_real_battery" /\ pc = "DONE"
    /\ args.best_edf.power_w = 8000
    /\ result # None

RealBatteries(frame) ==
    { FromDfRow(frame[i], n) : i \in 1 .. Len(frame), n \in 1 .. MaxNumBatteries }

\* C17: the configuration find_best_real_battery holds as the best one, and
\* returns, carries a pack of the battery catalog whose total weight is at
\* most twice the weight of the stage-1 virtual battery and that passed the
\* power check of Aircraft with the stage-1 EDF.
C17_FeasibleBattery ==
    (scenario = "find_best_real_battery" /\ search.best_config # None) =>
        LET chosen == search.best_config.aircraft
        IN  /\ chosen.edf = args.best_edf
            /\ chosen.battery \in RealBatteries(catalogs.battery)
            /\ chosen.battery.weight_g <= 2 * args.virtual_battery.weight_g
            /\ ~CannotSupply(chosen.battery, args.best_edf.power_w)
            /\ (pc = "DONE" => result = search.best_config)

\* Stage 2 has returned a configuration of several packs, after a pack
\* of the same row failed the power check.
C17_Witness ==
    /\ scenario = "find_best_real_battery" /\ pc = "DONE"
    /\ result # None
    /\ result.aircraft.battery.num_batteries > 1
    /\ CannotSupply(FromDfRow(catalogs.battery[1], 1), args.best_edf.power_w)

----------------------------------------------------------------------------
(* Properties of FuelFlightProfileCalculator.calculate_profile.            *)

\* C18: calculate_profile never raises and returns a termination reason out
\* of FAIL_TAKEOFF, FAIL_CLIMB, FUEL_EXHAUSTION, BATTERY_DEPLETION and
\* MISSION_COMPLETE; when the reason is FAIL_TAKEOFF or FAIL_CLIMB the
\* returned endurance and distance are both 0.
C18_TerminationReason ==
    (scenario = "calculate_profile" /\ pc = "DONE") =>
        /\ outcome = "returned"
        /\ result[4] \in { "FAIL_TAKEOFF", "FAIL_CLIMB", "FUEL_EXHAUSTION",
                           "BATTERY_DEPLETION", "MISSION_COMPLETE" }
        /\ result[4] \in {"FAIL_TAKEOFF", "FAIL_CLIMB"} =>
               result[1] = 0 /\ result[2] = 0

----------------------------------------------------------------------------
(* Properties of the Battery constructors and of the Aircraft weights.     *)

\* C19: every way of constructing a Battery raises a validation error when
\* it is given a C-rating or a weight that is not positive, so that no
\* battery with such a value exists.
C19_BatteryValidated ==
    (/\ scenario = "battery" /\ pc = "DONE"
     /\ args.c_rating <= 0 \/ args.weight_g <= 0) =>
        /\ outcome = "raised"
        /\ battery = None

\* C20: every constructed Aircraft has mtow = power-system weight + airframe
\* weight + payload weight, with airframe weight = 0.4 kg + 0.8 * the
\* power-system weight and payload weight = 0.20 * power / 100 kg; for a
\* positive rated power the mtow is greater than the power-system weight.
C20_WeightBuildUp ==
    (scenario = "construct" /\ aircraft # None /\ Derived(aircraft)) =>
        LET power_system_weight_g ==
                aircraft.edf.weight_g + aircraft.battery.weight_g
        IN  /\ aircraft.airframe_weight_g
                 = 400 + MulDiv(power_system_weight_g, 8, 10)
            /\ aircraft.payload_weight_g = 2 * aircraft.edf.power_w
            /\ aircraft.mtow_g = power_system_weight_g
                                   + aircraft.airframe_weight_g
                                   + aircraft.payload_weight_g
            /\ aircraft.edf.power_w > 0 =>
                   aircraft.mtow_g > power_system_weight_g

----------------------------------------------------------------------------
(* Properties of the percent / value round trip.                           *)

\* C21: a freshly constructed parameter has percent 50, and for every
\* accepted range (0 < min_val <= max_val) and every percent p in 0..100,
\* setting percent to p, reading value and assigning that value back
\* succeeds and leaves percent equal to p.
C21_RoundTrip ==
    scenario = "round_trip" =>
        /\ (pc = "CALL" /\ args.attribute = "percent") => args.self.percent = 50
        /\ pc = "DONE" => (outcome = "returned" /\ args.self.percent = args.percent)

----------------------------------------------------------------------------
(* Properties of the recorded FlightPath.                                  *)

\* The five sample columns of a FlightPath.
Columns == {"time_ms", "dist_cm", "alt_ft", "ias_mkts", "battery_mpct"}

\* The phases of a mission under way.
Flying == scenario \in MissionCallers /\ pc \in {"TAKEOFF", "CLIMB", "CRUISE", "DESCENT"}

\* C22: FlightPath is append-only with aligned columns: after any number of
\* record_step calls the five columns all have length 1 + that number, and
\* a call leaves every entry recorded before it as it was.
C22_AppendOnly ==
    [][Flying =>
          /\ \A c \in Columns : Len(path[c]) = 1 + Len(executed)
          /\ \A c \in Columns :
                 /\ Len(path'[c]) = 1 + Len(executed')
                 /\ SubSeq(path'[c], 1, Len(path[c])) = path[c]]_vars

\* A mission recorded its take-off, climb steps, cruise and descent.
C22_Witness ==
    /\ scenario = "mission" /\ pc = "DONE"
    /\ Len(executed) >= 5 /\ Len(path.ias_mkts) = 1 + Len(executed)

\* C25: in a FlightPath returned by run_mission_simulation no recorded
\* altitude sample, and so max_altitude_ft, exceeds the 45,000 ft ceiling.
C25_BelowCeiling ==
    (scenario = "mission" /\ pc = "DONE") =>
        /\ \A i \in 1..Len(path.alt_ft) : path.alt_ft[i] <= 45000
        /\ path.max_altitude_ft <= 45000

\* C29: for every mission that takes off, the DESCENT sample brings the
\* altitude back to exactly 0 ft, whatever number of climb steps ran, and
\* its battery_pct is that of the sample before it.
C29_DescentToGround ==
    Landed =>
        /\ executed[Len(executed)] = "DESCENT"
        /\ path.alt_ft[Len(path.alt_ft)] = 0
        /\ path.battery_mpct[Len(path.battery_mpct)] =
               path.battery_mpct[Len(path.battery_mpct) - 1]

\* A mission that climbed and cruised has come down.
C29_Witness ==
    /\ Landed /\ ClimbCount >= 2 /\ Count("CRUISE") = 1
    /\ path.alt_ft[Len(path.alt_ft) - 1] > 250
    /\ path.alt_ft[Len(path.alt_ft)] = 0

----------------------------------------------------------------------------
(* Properties of a calculate_profile call that flies.                      *)

\* The arguments describe a flight: take-off is possible, the engine power
\* available at the propeller exceeds the power the cruise requires, there
\* is fuel on board and a positive consumption rate is given.
ProfileFlies ==
    /\ scenario = "calculate_profile"
    /\ {"High Lift - Max Cl (approx)", "Cruise Cd"} \subseteq DOMAIN args.wing_profile
    /\ {"engine_hp", "fuel_onboard_kg", "fuel_consumption_kg_per_hr"}
           \subseteq DOMAIN args.powerplant_details
    /\ args.wing_profile["High Lift - Max Cl (approx)"] > 0
    /\ args.wing_area_sq_m > 0 /\ args.mtow > 0
    /\ MulDiv(args.powerplant_details["engine_hp"], 7457 * 8, 100)
         > MulDiv(CalculateDragAtCruise(MulDiv(args.cruise_speed, 514444, 1000000),
                                        GetAirDensity(args.cruise_altitude),
                                        args.wing_area_sq_m,
                                        args.wing_profile["Cruise Cd"]),
                  MulDiv(args.cruise_speed, 514444, 1000000), 1000)
    /\ args.powerplant_details["fuel_onboard_kg"] > 0
    /\ args.powerplant_details["fuel_consumption_kg_per_hr"] > 0

\* C23: whenever take-off is possible, the available engine power exceeds
\* the cruise power required, fuel on board is positive and a positive
\* consumption rate is supplied, calculate_profile returns an endurance of
\* 60 * fuel / rate minutes, a distance of cruise speed times the endurance
\* in hours and the reason FUEL_EXHAUSTION; a second call with the same
\* arguments returns the same.
C23_FuelEndurance ==
    (ProfileFlies /\ pc \in {"AGAIN", "DONE"}) =>
        /\ result[1] * args.powerplant_details["fuel_consumption_kg_per_hr"]
             = 60000 * args.powerplant_details["fuel_onboard_kg"]
        /\ result[2] = MulDiv(args.cruise_speed, result[1], 60000)
        /\ result[4] = "FUEL_EXHAUSTION"
        /\ pc = "DONE" => executed = <<result>>

\* Both calls of a flight at 1000 ft have returned two hours of endurance.
C23_Witness ==
    /\ ProfileFlies /\ pc = "DONE" /\ args.cruise_altitude = 1000
    /\ result[1] = 120000 /\ result[2] = 100000 /\ Len(executed) = 1

----------------------------------------------------------------------------
(* Properties of the design iteration.                                     *)

\* C24: design_from_mission constructs at most 15 candidate Aircraft; after
\* each iteration that has not converged the next MTOW guess is the average
\* of the previous guess and the MTOW of the Aircraft just built; and the
\* Aircraft returned is the one built in the last iteration executed.
C24_DampedIteration ==
    [][(scenario = "design_from_mission" /\ pc = "LOOP") =>
          /\ design'.i <= 15
          /\ (pc' = "LOOP" /\ design'.i = design.i + 1) =>
                 /\ aircraft'.edf = design'.edf
                 /\ design'.mtow_guess_g
                      = (design.mtow_guess_g + aircraft'.mtow_g) \div 2
          /\ (pc' = "DONE" /\ outcome' = "returned") =>
                 /\ aircraft' = BuiltAircraft(design'.edf, args.battery,
                                              args.params)
                 /\ design'.i = design.i =>
                        (design.i = 15 /\ aircraft' = aircraft)]_vars

\* A design returned after iterations that had not converged.
C24_Witness ==
    /\ scenario = "design_from_mission" /\ pc = "DONE" /\ outcome = "returned"
    /\ design.i >= 3 /\ design.i < 15
    /\ design.mtow_guess_g # args.initial_mtow_guess_g

----------------------------------------------------------------------------
(* Properties of score for a range that is a single point.                 *)

\* C26: for min_val = max_val = t, score(actual) returns without dividing
\* by zero: 0 for actual <= 0 and min(actual, t) / max(actual, t) otherwise,
\* which is 1 exactly when actual = t.
C26_ScalarTarget ==
    (scenario = "score" /\ pc = "DONE" /\ args.self.min_val = args.self.max_val) =>
        LET t_h == 2 * args.self.min_val
            a   == args.actual_value_h
        IN  /\ outcome = "returned"
            /\ result[2] > 0
            /\ a <= 0 => Same(result, <<0, 1>>)
            /\ a > 0  => Same(result, <<Min(a, t_h), Max(a, t_h)>>)
            /\ Same(result, <<1, 1>>) <=> a = t_h

\* A single-point target of 2 was scored against 1.5.
C26_Witness ==
    /\ scenario = "score" /\ pc = "DONE"
    /\ args.self.min_val = 2 /\ args.self.max_val = 2
    /\ args.actual_value_h = 3 /\ Same(result, <<3, 4>>)

----------------------------------------------------------------------------
(* Properties of the order and of the result of the searches.              *)

\* The fitness calculate_fitness gives the candidate whose mission has just
\* returned.
CandidateFitness ==
    OverallScore(ParameterScores(args.target_params, aircraft, path))

C28_MultiplicityOrder ==
    [][(scenario = "find_best_real_battery" /\ pc \in {"CANDIDATE", "SCORE"}
        /\ search.candidate <= Len(catalogs.battery)) =>
          LET n        == search.num_batteries
              pack     == FromDfRow(catalogs.battery[search.candidate], n)
              next_row == /\ search'.candidate = search.candidate + 1
                          /\ search'.num_batteries = 1
                          /\ pc' = "CANDIDATE"
              next_n   == IF n < 10
                          THEN /\ search'.candidate = search.candidate
                               /\ search'.num_batteries = n + 1
                               /\ pc' = "CANDIDATE"
                          ELSE next_row
          IN  /\ n \in 1..10
              /\ IF pc = "SCORE" THEN next_n
                 ELSE IF pack.weight_g > 2 * args.virtual_battery.weight_g
                 THEN next_row
                 ELSE IF 10 * pack.max_power_w < 12 * args.best_edf.power_w
                 THEN next_n
                 ELSE /\ pc' = "TAKEOFF" /\ battery' = pack
                      /\ search' = search]_vars

\* Three packs of the first row are about to be flown, after one and two
\* packs of it failed the power check.
C28_Witness ==
    /\ scenario = "find_best_real_battery" /\ pc = "TAKEOFF"
    /\ search.candidate = 1 /\ search.num_batteries = 3
    /\ search.best_config = None
    /\ battery.num_batteries = 3
    /\ CannotSupply(FromDfRow(catalogs.battery[1], 2), args.best_edf.power_w)

----------------------------------------------------------------------------
(* Properties of the fitness of an aircraft that stays on the ground.      *)

\* C30: an Aircraft that cannot take off is scored, not rejected: fitness
\* returns, the aborted mission reports a total time of 0, so the endurance
\* score is 0, and so is the overall fitness_score.
C30_GroundedScoresZero ==
    (scenario = "fitness" /\ pc = "DONE" /\ NetForce(aircraft) <= 0) =>
        /\ outcome = "returned"
        /\ executed = <<>>
        /\ path.total_time_ms = 0
        /\ result.parameter_scores.endurance = 0
        /\ result.fitness_score = 0

\* An aircraft that cannot take off was scored: only its endurance score
\* is 0.
C30_Witness ==
    /\ scenario = "fitness" /\ pc = "DONE" /\ NetForce(aircraft) <= 0
    /\ result.fitness_score = 0
    /\ \A n \in DOMAIN result.parameter_scores \ {"endurance"} :
           result.parameter_scores[n] > 0

====
